---------------------------- MODULE Spec2Model ----------------------------
(***************************************************************************)
(* A model of HarAnalyzer (src/har_analyzer.py): the analyzer object built *)
(* from a HAR document, its analyze() handler, the eight analyses analyze  *)
(* calls and the five anomaly detectors.                                   *)
(*                                                                         *)
(* Data representation.                                                    *)
(*  - An entry is a record; each field holds the value the python dict    *)
(*    holds.  `shape` names the one way in which the entry departs from    *)
(*    the HAR schema ("ok": it does not): a key that is absent, or a key   *)
(*    whose value is null.  The accessors below apply the defaults of the  *)
(*    code's .get(key, default) calls.                                     *)
(*  - A start time is the text of startedDateTime, kept as the parts of    *)
(*    the ISO-8601 text: the local wall time in seconds, and the zone      *)
(*    designator ("Z", a numeric offset in seconds, or none).              *)
(*  - Durations are milliseconds, sizes are bytes.                         *)
(*  - A python exception leaving a method is the outcome                   *)
(*    [ok |-> FALSE, exc |-> <its type>].                                  *)
(***************************************************************************)
EXTENDS Integers, Sequences, FiniteSets, TLC

VARIABLES
    har_data,     \* self.har_data: the document as handed to the constructor
    entries,      \* self.entries: the list object inside the document
    error_info,   \* the error catalog dict most recently built by _get_error_analysis
    clock,        \* wall clock read by datetime.now(), in seconds
    calls,        \* outcomes of the analyze() calls made so far, in order
    slots         \* results of the analyses run one by one, by name

vars == <<har_data, entries, error_info, clock, calls, slots>>

----------------------------------------------------------------------------
(* Sequences and small arithmetic                                          *)

SetMin(S) == CHOOSE m \in S : \A n \in S : m <= n

SetMax(S) == CHOOSE m \in S : \A n \in S : m >= n

RECURSIVE AscSeq(_)
\* The elements of a finite set of integers, ascending.
AscSeq(S) == IF S = {} THEN <<>> ELSE LET m == SetMin(S) IN <<m>> \o AscSeq(S \ {m})

RECURSIVE SumSeq(_)
SumSeq(s) == IF s = <<>> THEN 0 ELSE Head(s) + SumSeq(Tail(s))

Range(s) == {s[i] : i \in DOMAIN s}

Take(s, n) == SubSeq(s, 1, IF n < Len(s) THEN n ELSE Len(s))

\* num/den rendered with `digits` decimals, as python's f"{num/den:.<digits>f}"
\* and round(num/den, digits) do: the result is the integer count of
\* 10^-digits units.  A quotient halfway between two counts goes to the even
\* one (the halfway quotients of the model are binary fractions, which the
\* float holds exactly).
Scale(digits) == IF digits = 0 THEN 1 ELSE IF digits = 1 THEN 10 ELSE 100

Fixed(num, den, digits) ==
    LET twice == 2 * num * Scale(digits)
        down == twice \div (2 * den)
    IN IF twice % (2 * den) = den THEN down + (down % 2) ELSE (twice + den) \div (2 * den)

----------------------------------------------------------------------------
(* Text: header names, URLs, start times                                   *)

\* str.lower() on the header names of the model.
Lower(name) ==
    CASE name = "Location" -> "location"
      [] name = "LOCATION" -> "location"
      [] name = "Content-Type" -> "content-type"
      [] name = "CONTENT-TYPE" -> "content-type"
      [] name = "User-Agent" -> "user-agent"
      [] OTHER -> name

\* urlparse(url).netloc on the URLs of the model.
Netloc(url) ==
    CASE url = "https://a.test/x" -> "a.test"
      [] url = "https://a.test/y" -> "a.test"
      [] url = "http://b.test/x" -> "b.test"
      [] OTHER -> ""

\* A start time text.  kind "iso": an ISO-8601 text with wall time `local`
\* (seconds) and zone designator `zone`: "Z", "offset" (+hh:mm / -hh:mm, `off`
\* seconds) or "none".  kind "bad": a non-empty text that is no ISO-8601 text.
\* kind "empty": the empty string.
IsoZ(t) == [kind |-> "iso", local |-> t, zone |-> "Z", off |-> 0]

IsoOff(t, o) == [kind |-> "iso", local |-> t, zone |-> "offset", off |-> o]

IsoNaive(t) == [kind |-> "iso", local |-> t, zone |-> "none", off |-> 0]

BadTime == [kind |-> "bad", local |-> 0, zone |-> "none", off |-> 0]

EmptyTime == [kind |-> "empty", local |-> 0, zone |-> "none", off |-> 0]

\* text.replace('Z', '+00:00'): the designator Z becomes the offset +00:00.
ReplaceZ(text) ==
    IF text.kind = "iso" /\ text.zone = "Z"
    THEN [text EXCEPT !.zone = "offset", !.off = 0]
    ELSE text

\* datetime.fromisoformat raises ValueError on these (a trailing Z is
\* accepted only by newer interpreters; the code replaces it beforehand).
FromIsoFails(text) == text.kind # "iso" \/ text.zone = "Z"

\* datetime.fromisoformat(text): aware iff the text carries an offset.
FromIso(text) == [aware |-> text.zone = "offset", local |-> text.local, off |-> text.off]

\* The instant of an aware datetime; the wall time of a naive one.
Instant(dt) == IF dt.aware THEN dt.local - dt.off ELSE dt.local

\* dt.isoformat(): the wall time followed by the offset, "+hh:mm" or "-hh:mm",
\* when aware.  Kept as the pair python's string order compares: the wall time
\* text (fixed width, so its order is the order of `local`), then the suffix:
\* "" sorts first, then "+.." texts by hh:mm, then "-.." texts by hh:mm,
\* since '+' < '-' in character order.
IsoFormat(dt) ==
    <<dt.local,
      IF ~dt.aware THEN 0
      ELSE IF dt.off >= 0 THEN 1 + dt.off
      ELSE 100000 + (0 - dt.off)>>

\* a < b for two isoformat texts (python str comparison).
StrLess(a, b) == a[1] < b[1] \/ (a[1] = b[1] /\ a[2] < b[2])

----------------------------------------------------------------------------
(* Accessors: entry.get(...).get(..., default)                             *)

NA == "N/A"

\* e.get('response', {}).get('status', 0)
Status(e) == IF e.shape \in {"response_absent", "status_absent"} THEN 0 ELSE e.status

\* e.get('response', {}).get('statusText', default)
StatusText(e, default) == IF e.shape = "response_absent" THEN default ELSE e.statusText

\* e.get('response', {}).get('content', {}).get('size', 0)
Size(e) == IF e.shape = "response_absent" THEN 0 ELSE e.size

\* e.get('response', {}).get('headers', [])
Headers(e) == IF e.shape = "response_absent" THEN <<>> ELSE e.headers

\* e.get('time', 0)
Time(e) == IF e.shape = "time_absent" THEN 0 ELSE e.time

\* e.get('request', {}).get('url', '')
Url(e) == IF e.shape = "request_absent" THEN "" ELSE e.url

\* e.get('request', {}).get('method', 'GET')
Method(e) == IF e.shape = "request_absent" THEN "GET" ELSE e.method

\* e.get('startedDateTime', '')
Started(e) == IF e.shape = "started_absent" THEN EmptyTime ELSE e.startedDateTime

\* e.get('serverIPAddress', 'N/A')
ServerIp(e) == e.serverIPAddress

\* The first exception raised over a list of per-entry exceptions ("" = none).
RECURSIVE FirstExc(_)
FirstExc(excs) ==
    IF excs = <<>> THEN ""
    ELSE IF Head(excs) # "" THEN Head(excs)
    ELSE FirstExc(Tail(excs))

Ok(v) == [ok |-> TRUE, exc |-> "", val |-> v]

Raised(exc) == [ok |-> FALSE, exc |-> exc, val |-> <<>>]

\* The outcome of a computation that raises `exc` unless exc = "".
Outcome(exc, v) == IF exc # "" THEN Raised(exc) ELSE Ok(v)

----------------------------------------------------------------------------
(* Formatting utilities                                                    *)

\* _format_size: "0B" for 0; otherwise divide by 1024 while the value is at
\* least 1024 and a larger unit remains, and render with one decimal.  The
\* text is kept as [unit, tenths]; unit 0..3 = B, KB, MB, GB; "0B" is
\* [unit |-> 0, tenths |-> -1], the one text without a decimal.
Units == <<"B", "KB", "MB", "GB">>

\* A byte count as its base-1024 digits, lowest first; the last digit is the
\* count of 1024^4 and has no upper limit.  Python's int has no width, and
\* float(size_bytes) and each division by 1024 are exact below 2^53.
Wide(n) ==
    LET kilo == n \div 1024
        mega == kilo \div 1024
        giga == mega \div 1024
    IN <<n % 1024, kilo % 1024, mega % 1024, giga % 1024, giga \div 1024>>

\* size >= 1024 after `unit` divisions of w by 1024.
AtLeast1024(w, unit) == \E i \in DOMAIN w : i > unit + 1 /\ w[i] > 0

RECURSIVE SizeLoopUncapped(_, _)
\* The while loop without its test on unit_index.
SizeLoopUncapped(w, unit) ==
    IF AtLeast1024(w, unit) THEN SizeLoopUncapped(w, unit + 1) ELSE unit

RECURSIVE SizeLoop(_, _)
\* The while loop (lines 1023-1025): unit_index when it ends.
SizeLoop(w, unit) ==
    IF AtLeast1024(w, unit) /\ unit < Len(Units) - 1 THEN SizeLoop(w, unit + 1) ELSE unit

RECURSIVE IntPart(_, _)
\* The integer part of w / 1024^unit.
IntPart(w, unit) ==
    IF unit >= Len(w) THEN 0 ELSE w[unit + 1] + 1024 * IntPart(w, unit + 1)

RECURSIVE Twentieths(_, _)
\* For the fraction f = (w[1..j] as a number) / 1024^j: the integer part of
\* 20 * f, and whether 20 * f is that integer.
Twentieths(w, j) ==
    IF j = 0 THEN [floor |-> 0, exact |-> TRUE]
    ELSE LET below == Twentieths(w, j - 1)
             x == 20 * w[j] + below.floor
         IN [floor |-> x \div 1024, exact |-> below.exact /\ x % 1024 = 0]

\* f"{size:.1f}" (line 1027) for size = w / 1024^unit: the count of tenths
\* nearest to the float, the even one when it is halfway.
Tenths(w, unit) ==
    LET t == Twentieths(w, unit)
        down == 10 * IntPart(w, unit) + t.floor \div 2
    IN IF t.floor % 2 = 0 THEN down
       ELSE IF t.exact THEN down + (down % 2) ELSE down + 1

\* _format_size on a byte count given by its digits.
FormatSize(w) ==
    IF \A i \in DOMAIN w : w[i] = 0 THEN [unit |-> 0, tenths |-> 0 - 1]
    ELSE LET unit == SizeLoop(w, 0) IN [unit |-> unit, tenths |-> Tenths(w, unit)]

_format_size(size_bytes) == FormatSize(Wide(size_bytes))

RECURSIVE FormatSizeLoop(_, _, _)
\* The while loop on the float num/den, unit_index = unit.
FormatSizeLoop(num, den, unit) ==
    IF num >= 1024 * den /\ unit < Len(Units) - 1
    THEN FormatSizeLoop(num, den * 1024, unit + 1)
    ELSE [unit |-> unit, tenths |-> Fixed(num, den, 1)]

\* _format_size(num/den) for the sum/len quotients the code passes (lines
\* 134, 840).
FormatSizeQ(num, den) ==
    IF num = 0 THEN [unit |-> 0, tenths |-> 0 - 1] ELSE FormatSizeLoop(num, den, 0)

\* The first header whose lower-cased name is `name`: its index, 0 if none.
FirstHeader(headers, name) ==
    LET hits == {i \in DOMAIN headers : Lower(headers[i].name) = name}
    IN IF hits = {} THEN 0 ELSE SetMin(hits)

\* _get_content_type; value.split(';')[0].strip() is taken by the table
\* MimeOf on the header values of the model.
MimeOf(value) ==
    CASE value = "text/html; charset=utf-8" -> "text/html"
      [] value = "application/json ; charset=utf-8" -> "application/json"
      [] OTHER -> value

\* The content type taken from the last content-type header instead.
ContentTypeOfLastHeader(e) ==
    LET hits == {i \in DOMAIN Headers(e) : Lower(Headers(e)[i].name) = "content-type"}
    IN IF hits = {} THEN "unknown" ELSE MimeOf(Headers(e)[SetMax(hits)].value)

_get_content_type(e) ==
    LET i == FirstHeader(Headers(e), "content-type")
    IN IF i = 0 THEN "unknown" ELSE MimeOf(Headers(e)[i].value)

\* _format_headers: name -> value; a later header of the same exact name
\* overwrites an earlier one.
_format_headers(headers) ==
    [n \in {headers[i].name : i \in DOMAIN headers} |->
        headers[SetMax({i \in DOMAIN headers : headers[i].name = n})].value]

\* A percentage text: f"{num/den*100:.1f}%" or the literal "0%".
Percent(num, den) == [literal0 |-> FALSE, tenths |-> Fixed(num * 100, den, 1)]

ZeroPercent == [literal0 |-> TRUE, tenths |-> 0]

----------------------------------------------------------------------------
(* Exceptions of the accessors on entries that depart from the schema      *)

\* The shapes of an entry: "ok", a key absent (the .get default applies), or a
\* key holding null.
Shapes ==
    {"ok", "response_absent", "status_absent", "request_absent", "time_absent",
     "started_absent", "response_null", "status_null", "request_null", "started_null"}

\* e.get('response', {}).get(...): None has no .get.
ResponseExc(e) == IF e.shape = "response_null" THEN "AttributeError" ELSE ""

\* ... .get('status', 0) compared with a number: None is not ordered.
StatusCmpExc(e) ==
    IF e.shape = "response_null" THEN "AttributeError"
    ELSE IF e.shape = "status_null" THEN "TypeError"
    ELSE ""

\* e.get('request', {}).get(...)
RequestExc(e) == IF e.shape = "request_null" THEN "AttributeError" ELSE ""

\* The first exception of a per-entry check over the entries, in order.
ExcOver(es, Check(_)) == FirstExc([i \in DOMAIN es |-> Check(es[i])])

\* The first of two exceptions in program order.
Then(a, b) == IF a # "" THEN a ELSE b

----------------------------------------------------------------------------
(* Classification                                                          *)

\* 200 <= status < 400 (line 30)
IsSuccessful(e) == 200 <= Status(e) /\ Status(e) < 400

\* status >= 400 or status == 0 (lines 75, 141)
IsError(e) == Status(e) >= 400 \/ Status(e) = 0

----------------------------------------------------------------------------
(* _get_summary                                                            *)

_get_summary(es, now) ==
    LET total_requests == Len(es)
        successful_requests == Cardinality({i \in DOMAIN es : IsSuccessful(es[i])})
        failed_requests == total_requests - successful_requests
        total_size == SumSeq([i \in DOMAIN es |-> Size(es[i])])
        times == [i \in DOMAIN es |-> Time(es[i])]
        total_time == SumSeq(times)
    IN Outcome(ExcOver(es, StatusCmpExc),
        [total_requests |-> total_requests,
         successful_requests |-> successful_requests,
         failed_requests |-> failed_requests,
         success_rate |-> IF total_requests > 0
                          THEN Percent(successful_requests, total_requests)
                          ELSE ZeroPercent,
         avg_response_time |-> IF times # <<>> THEN Fixed(total_time, Len(times), 2) ELSE 0,
         total_size |-> _format_size(total_size),
         total_time |-> Fixed(total_time, 1, 2),
         analysis_time |-> now])

----------------------------------------------------------------------------
(* _analyze_requests                                                       *)

\* The statuses of the error catalog and of the category table (lines 194-367,
\* 993-1003).
CatalogStatuses == {400, 401, 403, 404, 405, 408, 429, 500, 502, 503, 504}

_get_error_details(e) ==
    [status_code |-> Status(e),
     status_text |-> StatusText(e, ""),
     category |-> IF Status(e) \in CatalogStatuses THEN <<"category", Status(e)>>
                  ELSE <<"unknown">>,
     url |-> Url(e),
     method |-> Method(e)]

\* A body text is kept as what the previews depend on: which text it is
\* (`id`), its length, whether json.loads accepts it ("no": it raises;
\* "canonical": json.dumps(..., indent=2) writes it back unchanged; "compact":
\* the indented output is another text) and the length of the indented output.
NoText == [id |-> "", len |-> 0, json |-> "no", pretty_len |-> 0]

\* A body dict (request.postData, response.content): absent, or with its
\* mimeType and text.
NoBody == [present |-> FALSE, mimeType |-> "", text |-> NoText]

\* request.get('postData', {})
PostData(e) == IF e.shape = "request_absent" THEN NoBody ELSE e.postData

\* response.get('content', {})
Content(e) == IF e.shape = "response_absent" THEN NoBody ELSE e.content

\* The python string a text is.
Str(text) == [of |-> text.id, form |-> "raw", len |-> text.len]

\* json.loads(text) raises.
JsonFails(text) == text.json = "no"

\* json.dumps(json.loads(text), indent=2, ensure_ascii=False)
JsonDumps(text) ==
    IF text.json = "canonical" THEN Str(text)
    ELSE [of |-> text.id, form |-> "indented", len |-> text.pretty_len]

\* formatted_text[:2000], text[:1000]
JsonPreviewLen == 2000

RawPreviewLen == 1000

\* str[:limit] + ('...' if len(str) > limit else '')
Truncated(str, limit) ==
    [of |-> str.of, form |-> str.form,
     len |-> IF str.len > limit THEN limit ELSE str.len,
     ellipsis |-> str.len > limit]

\* mime_type.startswith('application/json') on the MIME types of the model.
StartsWithJson(mime_type) ==
    mime_type \in {"application/json", "application/json; charset=utf-8"}

\* _format_post_data ({} is <<>>).
_format_post_data(post_data) ==
    IF ~post_data.present THEN <<>>
    ELSE LET text == post_data.text
             mime_type == post_data.mimeType
         IN [mime_type |-> mime_type,
             text |-> IF mime_type = "application/json" /\ text.len > 0 /\ ~JsonFails(text)
                      THEN Truncated(JsonDumps(text), JsonPreviewLen)
                      ELSE Truncated(Str(text), RawPreviewLen),
             full_content |-> Str(text),
             is_json |-> mime_type = "application/json"]

\* _get_response_preview ({} is <<>>).
_get_response_preview(content) ==
    IF ~content.present THEN <<>>
    ELSE LET text == content.text
             mime_type == content.mimeType
         IN [mime_type |-> mime_type,
             preview |-> IF StartsWithJson(mime_type) /\ text.len > 0 /\ ~JsonFails(text)
                         THEN Truncated(JsonDumps(text), JsonPreviewLen)
                         ELSE Truncated(Str(text), RawPreviewLen),
             full_content |-> Str(text),
             is_json |-> StartsWithJson(mime_type)]

\* The request_info of entry i (the query parameters, timings and cache
\* passthrough are not part of this model).
RequestInfo(es, i) ==
    LET e == es[i] IN
    [index |-> i,
     method |-> Method(e),
     url |-> Url(e),
     domain |-> Netloc(Url(e)),
     status_code |-> Status(e),
     status_text |-> StatusText(e, ""),
     is_error |-> IsError(e),
     server_ip |-> ServerIp(e),
     content_size |-> _format_size(Size(e)),
     content_size_bytes |-> Size(e),
     total_time_ms |-> Time(e),
     start_time |-> Started(e),
     content_type |-> _get_content_type(e),
     response_headers |-> _format_headers(Headers(e)),
     post_data |-> _format_post_data(PostData(e)),
     response_content |-> _get_response_preview(Content(e)),
     error_details |-> IF IsError(e) THEN <<_get_error_details(e)>> ELSE <<>>]

RequestInfoExc(e) == Then(RequestExc(e), StatusCmpExc(e))

_analyze_requests(es) ==
    Outcome(ExcOver(es, RequestInfoExc), [i \in DOMAIN es |-> RequestInfo(es, i)])

----------------------------------------------------------------------------
(* _analyze_performance                                                    *)

RECURSIVE SortDescIdxLastFirst(_, _)
\* A descending order in which entries of equal key come out last first, as
\* reversing an ascending stable sort gives.
SortDescIdxLastFirst(keys, S) ==
    IF S = {} THEN <<>>
    ELSE LET top == SetMax({keys[i] : i \in S})
             first == SetMax({i \in S : keys[i] = top})
         IN <<first>> \o SortDescIdxLastFirst(keys, S \ {first})

RECURSIVE SortDescIdx(_, _)
\* sorted(..., reverse=True) on the indices S by keys[i]: descending, and
\* stable, so entries of equal key keep their order.
SortDescIdx(keys, S) ==
    IF S = {} THEN <<>>
    ELSE LET top == SetMax({keys[i] : i \in S})
             first == SetMin({i \in S : keys[i] = top})
         IN <<first>> \o SortDescIdx(keys, S \ {first})

\* sorted(es, key, reverse=True): the new list.
SortedDesc(es, keys) == LET ix == SortDescIdx(keys, DOMAIN es) IN [k \in DOMAIN ix |-> es[ix[k]]]

\* What sorted(self.entries, ...) leaves in self.entries, given the list it
\* returns: sorted() builds a new list and does not touch its argument.
\* One operator per call site: _get_slowest_requests (line 869) and
\* _get_largest_requests (line 884).
\* list.sort(): the list itself is put in the order of `sorted`.
EntriesSortedInPlace(es, sorted) == sorted

EntriesAfterSlowest(es, sorted) == es

EntriesAfterLargest(es, sorted) == es

TopLimit == 5

_get_slowest_requests(es, limit) ==
    LET sorted_entries == SortedDesc(es, [i \in DOMAIN es |-> Time(es[i])])
        top == Take(sorted_entries, limit)
    IN [k \in DOMAIN top |->
           [url |-> Url(top[k]), method |-> Method(top[k]),
            time |-> Fixed(Time(top[k]), 1, 2), status |-> Status(top[k])]]

_get_largest_requests(es, limit) ==
    LET sorted_entries == SortedDesc(es, [i \in DOMAIN es |-> Size(es[i])])
        top == Take(sorted_entries, limit)
    IN [k \in DOMAIN top |->
           [url |-> Url(top[k]), method |-> Method(top[k]),
            size |-> _format_size(Size(top[k])), status |-> Status(top[k])]]

\* self.entries after _analyze_performance.
PerformanceEffect(es) ==
    IF es = <<>> THEN es
    ELSE LET es1 == EntriesAfterSlowest(es, SortedDesc(es, [i \in DOMAIN es |-> Time(es[i])]))
         IN EntriesAfterLargest(es1, SortedDesc(es1, [i \in DOMAIN es1 |-> Size(es1[i])]))

PerformanceExc(es) ==
    LET slow == Take(SortedDesc(es, [i \in DOMAIN es |-> Time(es[i])]), TopLimit)
        large == Take(SortedDesc(es, [i \in DOMAIN es |-> Size(es[i])]), TopLimit)
    IN Then(ExcOver(es, ResponseExc), Then(ExcOver(slow, RequestExc), ExcOver(large, RequestExc)))

\* The empty dict {}.
EmptyDict == <<>>

\* What an empty document would meet past the guard of line 123:
\* sum(times)/len(times) divides by zero.
PerformanceOfEmptyUnguarded == Raised("ZeroDivisionError")

\* _analyze_performance on an empty document: the guard of lines 123-124
\* returns {} before any aggregate is computed.
PerformanceOfEmpty == Ok(EmptyDict)

_analyze_performance(es) ==
    IF es = <<>> THEN PerformanceOfEmpty
    ELSE LET times == [i \in DOMAIN es |-> Time(es[i])]
             sizes == [i \in DOMAIN es |-> Size(es[i])]
             es1 == EntriesAfterSlowest(es, SortedDesc(es, times))
         IN Outcome(PerformanceExc(es),
             [avg_response_time |-> Fixed(SumSeq(times), Len(times), 2),
              min_response_time |-> Fixed(SetMin(Range(times)), 1, 2),
              max_response_time |-> Fixed(SetMax(Range(times)), 1, 2),
              total_transfer_size |-> _format_size(SumSeq(sizes)),
              avg_transfer_size |-> FormatSizeQ(SumSeq(sizes), Len(sizes)),
              slowest_requests |-> _get_slowest_requests(es, TopLimit),
              largest_requests |-> _get_largest_requests(es1, TopLimit)])

----------------------------------------------------------------------------
(* _get_error_analysis and _analyze_errors                                 *)

\* The catalog statuses whose record interpolates the domain and the server
\* IP into its suggestions (lines 239-380).
TemplatedStatuses == {403, 404, 408, 502, 503, 504}

\* The dict literal error_info (lines 193-385) evaluated for one call: one
\* record per catalog status.  A record is kept as what identifies its text:
\* the status it is the record of and the domain and IP interpolated into it;
\* whitelist_info is the key the code may add (<<>>: the key is absent).
CatalogRecord(status, server_ip, domain) ==
    [kind |-> "catalog",
     status |-> status,
     domain |-> IF status \in TemplatedStatuses THEN domain ELSE "",
     server_ip |-> IF status \in TemplatedStatuses THEN server_ip ELSE "",
     whitelist_info |-> <<>>]

FreshErrorInfo(server_ip, domain) ==
    [st \in CatalogStatuses |-> CatalogRecord(st, server_ip, domain)]

\* No catalog dict has been built yet.
NoErrorInfo == <<>>

\* A catalog dict built once and kept between calls.
ReuseErrorInfo(heap, server_ip, domain) ==
    IF DOMAIN heap = {} THEN FreshErrorInfo(server_ip, domain) ELSE heap

\* The catalog dict a call of _get_error_analysis works on, given the dict
\* the previous call left (`heap`): error_info is a local of the method, built
\* anew by every call (line 193).
BuildErrorInfo(heap, server_ip, domain) == FreshErrorInfo(server_ip, domain)

\* Status 0 answered with the record of an unknown status.
ConnectionAsUnknown(server_ip, domain) ==
    [kind |-> "unknown", status |-> 0, domain |-> domain, server_ip |-> server_ip,
     whitelist_info |-> <<>>]

\* The record returned for status 0 (lines 388-406).
ConnectionRecord(server_ip, domain) ==
    [kind |-> "connection", status |-> 0, domain |-> domain, server_ip |-> server_ip,
     whitelist_info |-> <<>>]

\* The default of error_info.get(status, {...}) (lines 409-419).
UnknownRecord(status, server_ip, domain) ==
    [kind |-> "unknown", status |-> status, domain |-> domain, server_ip |-> server_ip,
     whitelist_info |-> <<>>]

\* _get_error_analysis: the record returned (`data`) and the catalog dict as
\* the call leaves it (`heap`): error_data is the catalog's own record when the
\* status is a catalog status, so adding whitelist_info to it writes into the
\* catalog dict (line 432).
_get_error_analysis(heap, status, url, server_ip, domain) ==
    LET info == BuildErrorInfo(heap, server_ip, domain)
        error_data == IF status \in DOMAIN info THEN info[status]
                      ELSE UnknownRecord(status, server_ip, domain)
        with_whitelist ==
            [error_data EXCEPT !.whitelist_info = <<[ip |-> server_ip, domain |-> domain]>>]
    IN IF status = 0
       THEN [data |-> ConnectionRecord(server_ip, domain), heap |-> info]
       ELSE IF server_ip # NA
       THEN [data |-> with_whitelist,
             heap |-> IF status \in DOMAIN info
                      THEN [info EXCEPT ![status] = with_whitelist] ELSE info]
       ELSE [data |-> error_data, heap |-> info]

\* The error_detail of document entry j, found as the i-th failure (line 146).
ErrorDetail(es, j, i, analysis) ==
    LET e == es[j]
        matches == {k \in DOMAIN es : Url(es[k]) = Url(e) /\ Status(es[k]) = Status(e)}
        original_index == IF matches = {} THEN 0 ELSE SetMin(matches)
    IN [url |-> Url(e),
        domain |-> Netloc(Url(e)),
        server_ip |-> ServerIp(e),
        method |-> Method(e),
        time |-> Started(e),
        status |-> Status(e),
        status_text |-> StatusText(e, "Unknown"),
        index |-> IF original_index # 0 THEN original_index ELSE i,
        error_analysis |-> analysis,
        response_headers |-> _format_headers(Headers(e))]

RECURSIVE ErrorLoop(_, _, _, _)
\* The loop over error_entries (lines 146-182) from the i-th failure on; ix
\* lists the document indices of the failures.
ErrorLoop(es, ix, i, heap) ==
    IF i > Len(ix) THEN [details |-> <<>>, heap |-> heap]
    ELSE LET e == es[ix[i]]
             a == _get_error_analysis(heap, Status(e), Url(e), ServerIp(e), Netloc(Url(e)))
             rest == ErrorLoop(es, ix, i + 1, a.heap)
         IN [details |-> <<ErrorDetail(es, ix[i], i, a.data)>> \o rest.details,
             heap |-> rest.heap]

ErrorKey(d) == <<d.status, d.status_text>>

\* The exception of the loop body for the failure at document index j: its
\* own request is read (line 152), then the requests of the entries from the
\* first one up to the first that matches its url and status (lines 158-162).
ErrorEntryExc(es, j) ==
    LET matches == {k \in DOMAIN es : Url(es[k]) = Url(es[j]) /\ Status(es[k]) = Status(es[j])}
    IN Then(RequestExc(es[j]), ExcOver(SubSeq(es, 1, SetMin(matches)), RequestExc))

\* _analyze_errors: the result (`out`) and the catalog dict left (`heap`).
_analyze_errors(es, heap) ==
    LET ix == AscSeq({i \in DOMAIN es : IsError(es[i])})
        error_entries == [k \in DOMAIN ix |-> es[ix[k]]]
        exc == Then(ExcOver(es, StatusCmpExc),
                    FirstExc([k \in DOMAIN ix |-> ErrorEntryExc(es, ix[k])]))
        loop == IF exc # "" THEN [details |-> <<>>, heap |-> heap]
                ELSE ErrorLoop(es, ix, 1, heap)
        detailed_errors == loop.details
        keys == {ErrorKey(detailed_errors[k]) : k \in DOMAIN detailed_errors}
        error_stats ==
            [key \in keys |->
                LET at == AscSeq({k \in DOMAIN detailed_errors :
                                     ErrorKey(detailed_errors[k]) = key})
                IN [n \in DOMAIN at |-> detailed_errors[at[n]]]]
    IN [out |-> Outcome(exc,
                   [total_errors |-> Len(error_entries),
                    error_rate |-> IF es # <<>> THEN Percent(Len(error_entries), Len(es))
                                   ELSE ZeroPercent,
                    error_breakdown |-> error_stats,
                    detailed_errors |-> detailed_errors]),
        heap |-> loop.heap]

----------------------------------------------------------------------------
(* _detect_redirect_loops                                                  *)

\* Keys of a python dict in insertion order: the distinct values of keyOf
\* over 1..n, each at its first occurrence.
FirstOccurrences(keyOf, n) ==
    AscSeq({i \in 1..n : \A j \in 1..(i - 1) : keyOf[j] # keyOf[i]})

\* The Location of an entry (lines 471-476): the value of the first header
\* named location in any case, "" when there is none (None in the code: both
\* are false in `if location`).
LocationOf(e) ==
    LET i == FirstHeader(Headers(e), "location")
    IN IF i = 0 THEN "" ELSE Headers(e)[i].value

\* Entry i is recorded as a hop (lines 470, 478).
IsHop(es, i) == 300 <= Status(es[i]) /\ Status(es[i]) < 400 /\ LocationOf(es[i]) # ""

Hop(es, i) ==
    [index |-> i, from_url |-> Url(es[i]), to_url |-> LocationOf(es[i]),
     status |-> Status(es[i]), time |-> Started(es[i])]

\* redirect_chains[url] (lines 480-488).
ChainOf(es, url) ==
    LET ix == AscSeq({i \in DOMAIN es : IsHop(es, i) /\ Url(es[i]) = url})
    IN [k \in DOMAIN ix |-> Hop(es, ix[k])]

RECURSIVE LoopFoundFromAdded(_, _, _)
\* The loop of lines 494-506 with the hop's own from_url added to the visited
\* set before its to_url is looked up.
LoopFoundFromAdded(chain, k, visited) ==
    IF k > Len(chain) THEN FALSE
    ELSE IF chain[k].to_url \in (visited \cup {chain[k].from_url}) THEN TRUE
    ELSE LoopFoundFromAdded(chain, k + 1, visited \cup {chain[k].from_url})

RECURSIVE LoopFound(_, _, _)
\* The loop of lines 494-506 from hop k on, with visited_urls = visited.
LoopFound(chain, k, visited) ==
    IF k > Len(chain) THEN FALSE
    ELSE IF chain[k].to_url \in visited THEN TRUE
    ELSE LoopFound(chain, k + 1, visited \cup {chain[k].from_url})

\* len(chain) > 3 (line 492)
LoopMinHops == 3

\* len(chain) > 1 (line 507)
FrequentMinHops == 1

\* The findings one chain contributes (lines 492-516): none or one.
ChainFindings(url, chain) ==
    IF Len(chain) > LoopMinHops
    THEN IF LoopFound(chain, 1, {})
         THEN <<[type |-> "redirect_loop", severity |-> "high", url |-> url,
                 chain_length |-> Len(chain), chain |-> chain]>>
         ELSE <<>>
    ELSE IF Len(chain) > FrequentMinHops
    THEN <<[type |-> "frequent_redirect", severity |-> "medium", url |-> url,
            chain_length |-> Len(chain), chain |-> chain]>>
    ELSE <<>>

RECURSIVE Concat(_)
Concat(seqs) == IF seqs = <<>> THEN <<>> ELSE Head(seqs) \o Concat(Tail(seqs))

RedirectExc(e) ==
    Then(ResponseExc(e), Then(RequestExc(e), StatusCmpExc(e)))

_detect_redirect_loops(es) ==
    LET hops == AscSeq({i \in DOMAIN es : IsHop(es, i)})
        urlOf == [k \in DOMAIN hops |-> Url(es[hops[k]])]
        first == FirstOccurrences(urlOf, Len(hops))
    IN Outcome(ExcOver(es, RedirectExc),
           Concat([k \in DOMAIN first |->
                      ChainFindings(urlOf[first[k]], ChainOf(es, urlOf[first[k]]))]))

----------------------------------------------------------------------------
(* _detect_duplicate_requests                                              *)

\* f"{method}:{url}" (line 529)
RequestKey(e) == <<Method(e), Url(e)>>

\* The try block of lines 549-553 fails on this entry: the start time is
\* null (None has no .replace) or no ISO-8601 text.
StartParseFails(e) == e.shape = "started_null" \/ FromIsoFails(ReplaceZ(Started(e)))

StartParsed(e) == FromIso(ReplaceZ(Started(e)))

\* max(times) / min(times) compare an offset-naive with an offset-aware
\* datetime: TypeError.
MixedZones(times) == \E a, b \in Range(times) : a.aware # b.aware

\* len(requests) > 3 (line 545)
DuplicateMinCount == 3

\* avg_interval < 1, avg_interval < 10, in seconds (line 559)
HighBelow == 1

MediumBelow == 10

\* The severity of an average interval num/den seconds (den > 0).
Severity(num, den) ==
    IF num < HighBelow * den THEN "high"
    ELSE IF num < MediumBelow * den THEN "medium"
    ELSE "low"

\* The document indices of the group of a key, in order (lines 526-541).
GroupOf(es, key) == AscSeq({i \in DOMAIN es : RequestKey(es[i]) = key})

\* times of a group (lines 547-553).
GroupTimes(es, group) ==
    LET ok == AscSeq({k \in DOMAIN group : ~StartParseFails(es[group[k]])})
    IN [n \in DOMAIN ok |-> StartParsed(es[group[ok[n]]])]

\* A group is reported (lines 545, 555).
GroupReported(es, group) ==
    Len(group) > DuplicateMinCount /\ Len(GroupTimes(es, group)) > 1

DuplicateRequest(es, i) ==
    [index |-> i, url |-> Url(es[i]), method |-> Method(es[i]), time |-> Started(es[i]),
     status |-> Status(es[i]), duration |-> Time(es[i])]

\* The divisor of the average taken over the occurrences counted in group.
IntervalCountOfRequests(times, group) == Len(group) - 1

\* The divisor of avg_interval: len(times) - 1 (line 557).
IntervalCount(times, group) == Len(times) - 1

\* The finding of a reported group (lines 556-572); time_span and
\* avg_interval are the tenths of a second that f"{...:.1f}" prints, and the
\* severity is taken from the quotient before it is rounded.
DuplicateFinding(es, group) ==
    LET times == GroupTimes(es, group)
        instants == {Instant(times[n]) : n \in DOMAIN times}
        time_span == SetMax(instants) - SetMin(instants)
        den == IntervalCount(times, group)
    IN [type |-> "duplicate_request",
        severity |-> Severity(time_span, den),
        url |-> Url(es[group[1]]),
        method |-> Method(es[group[1]]),
        count |-> Len(group),
        time_span |-> Fixed(time_span, 1, 1),
        avg_interval |-> Fixed(time_span, den, 1),
        requests |-> [k \in DOMAIN group |-> DuplicateRequest(es, group[k])]]

DuplicateExc(e) == Then(RequestExc(e), ResponseExc(e))

_detect_duplicate_requests(es) ==
    LET keyOf == [i \in DOMAIN es |-> RequestKey(es[i])]
        first == FirstOccurrences(keyOf, Len(es))
        groups == [k \in DOMAIN first |-> GroupOf(es, keyOf[first[k]])]
        reported == AscSeq({k \in DOMAIN groups : GroupReported(es, groups[k])})
        mixed == \E k \in Range(reported) : MixedZones(GroupTimes(es, groups[k]))
        exc == Then(ExcOver(es, DuplicateExc), IF mixed THEN "TypeError" ELSE "")
        duplicate_groups ==
            [n \in DOMAIN reported |-> DuplicateFinding(es, groups[reported[n]])]
    IN Outcome(exc,
           SortedDesc(duplicate_groups,
                      [n \in DOMAIN duplicate_groups |-> duplicate_groups[n].count]))

----------------------------------------------------------------------------
(* _detect_suspicious_patterns, _detect_performance_issues,                *)
(* _detect_security_concerns                                               *)

\* The document indices satisfying Test, in order, as a list.
Offenders(es, Test(_)) == AscSeq({i \in DOMAIN es : Test(es[i])})

\* size > 10 * 1024 * 1024 (line 597), duration > 30000 (line 618)
LargeResponseBytes == 10485760

SlowRequestMs == 30000

IsLarge(e) == Size(e) > LargeResponseBytes

IsSlow(e) == Time(e) > SlowRequestMs

\* status >= 400 (line 581)
IsHttpError(e) == Status(e) >= 400

SuspiciousExc(es) ==
    LET large == Offenders(es, IsLarge)
        slow == Offenders(es, IsSlow)
    IN Then(ExcOver(es, StatusCmpExc),
            Then(ExcOver([k \in DOMAIN large |-> es[large[k]]], RequestExc),
                 ExcOver([k \in DOMAIN slow |-> es[slow[k]]], RequestExc)))

_detect_suspicious_patterns(es) ==
    LET error_count == Cardinality({i \in DOMAIN es : IsHttpError(es[i])})
        total_count == Len(es)
        large == Offenders(es, IsLarge)
        slow == Offenders(es, IsSlow)
    IN Outcome(SuspiciousExc(es),
         (IF total_count > 0 /\ error_count * 10 > 3 * total_count
          THEN <<[type |-> "high_error_rate", severity |-> "high",
                  count |-> error_count, total |-> total_count, requests |-> <<>>]>>
          ELSE <<>>)
         \o (IF large # <<>>
              THEN <<[type |-> "large_response", severity |-> "medium",
                      count |-> Len(large), total |-> total_count, requests |-> large]>>
              ELSE <<>>)
         \o (IF slow # <<>>
              THEN <<[type |-> "slow_request", severity |-> "medium",
                      count |-> Len(slow), total |-> total_count, requests |-> slow]>>
              ELSE <<>>))

\* dns_time > 1000, connect_time > 3000, ssl_time > 2000 (lines 648, 668, 688)
DnsSlowMs == 1000

ConnectSlowMs == 3000

SslSlowMs == 2000

\* e.get('timings', {}).get(kind, -1) for kind dns, connect, ssl
Dns(e) == IF e.shape = "timings_absent" THEN 0 - 1 ELSE e.dns

Connect(e) == IF e.shape = "timings_absent" THEN 0 - 1 ELSE e.connect

Ssl(e) == IF e.shape = "timings_absent" THEN 0 - 1 ELSE e.ssl

\* A DNS time that has reached the threshold.
IsDnsSlowFromThreshold(e) == Dns(e) >= DnsSlowMs

IsDnsSlow(e) == Dns(e) > DnsSlowMs

IsConnectSlow(e) == Connect(e) > ConnectSlowMs

IsSslSlow(e) == Ssl(e) > SslSlowMs

TimingFinding(type, severity, offenders) ==
    IF offenders # <<>>
    THEN <<[type |-> type, severity |-> severity, requests |-> offenders]>>
    ELSE <<>>

PerformanceIssuesExc(es) ==
    LET all == Offenders(es, IsDnsSlow) \o Offenders(es, IsConnectSlow)
                 \o Offenders(es, IsSslSlow)
    IN ExcOver([k \in DOMAIN all |-> es[all[k]]], RequestExc)

_detect_performance_issues(es) ==
    IF es = <<>> THEN Ok(<<>>)
    ELSE Outcome(PerformanceIssuesExc(es),
             TimingFinding("dns_slow", "medium", Offenders(es, IsDnsSlow))
             \o TimingFinding("connect_slow", "high", Offenders(es, IsConnectSlow))
             \o TimingFinding("ssl_slow", "medium", Offenders(es, IsSslSlow)))

\* url.startswith('http://') on the URLs of the model.
IsPlainHttp(e) == Url(e) \in {"http://b.test/x"}

IsAuthFailure(e) == Status(e) \in {401, 403}

\* e.get('request', {}).get('headers', [])
RequestHeaders(e) == IF e.shape = "request_absent" THEN <<>> ELSE e.req_headers

\* len(ua) < 20 (line 759)
UserAgentMinLen == 20

\* The request has a User-Agent header whose first occurrence is empty or
\* shorter than 20 characters (lines 755-765).
IsSuspiciousUa(e) ==
    LET i == FirstHeader(RequestHeaders(e), "user-agent")
    IN i # 0 /\ Len(RequestHeaders(e)[i].value) < UserAgentMinLen

\* http_requests[:10], len(auth_failures) > 5, suspicious_ua[:5]
HttpListLimit == 10

AuthFailureMinCount == 5

UaListLimit == 5

_detect_security_concerns(es) ==
    LET http == Offenders(es, IsPlainHttp)
        auth == Offenders(es, IsAuthFailure)
        ua == Offenders(es, IsSuspiciousUa)
    IN Outcome(Then(ExcOver(es, RequestExc), ExcOver(es, ResponseExc)),
         (IF http # <<>>
          THEN <<[type |-> "insecure_http", severity |-> "medium",
                  requests |-> Take(http, HttpListLimit), total_count |-> Len(http)]>>
          ELSE <<>>)
         \o (IF Len(auth) > AuthFailureMinCount
              THEN <<[type |-> "auth_failures", severity |-> "high",
                      requests |-> auth, total_count |-> Len(auth)]>>
              ELSE <<>>)
         \o (IF ua # <<>>
              THEN <<[type |-> "suspicious_user_agent", severity |-> "low",
                      requests |-> Take(ua, UaListLimit), total_count |-> Len(ua)]>>
              ELSE <<>>))

\* The dict _analyze_anomalies returns from the results of the five
\* detectors (lines 447-458).
Anomalies(redirects, duplicates, suspicious, issues, concerns) ==
    LET total_anomalies == Len(redirects) + Len(duplicates) + Len(suspicious)
                             + Len(issues) + Len(concerns)
    IN [redirect_loops |-> redirects,
        duplicate_requests |-> duplicates,
        suspicious_patterns |-> suspicious,
        performance_issues |-> issues,
        security_concerns |-> concerns,
        total_anomalies |-> total_anomalies,
        has_anomalies |-> total_anomalies > 0]

\* The join of the five detector outcomes, called in the order of lines
\* 439-443: the first exception, or the dict.
JoinAnomalies(r, d, s, p, c) ==
    LET exc == FirstExc(<<r.exc, d.exc, s.exc, p.exc, c.exc>>)
    IN Outcome(exc, Anomalies(r.val, d.val, s.val, p.val, c.val))

_analyze_anomalies(es) ==
    JoinAnomalies(_detect_redirect_loops(es), _detect_duplicate_requests(es),
                  _detect_suspicious_patterns(es), _detect_performance_issues(es),
                  _detect_security_concerns(es))

----------------------------------------------------------------------------
(* _analyze_domains, _analyze_file_types, _create_timeline                 *)

\* The groups of a grouping dict, in insertion order: each the list of the
\* document indices whose key is the group's.
GroupsBy(keyOf, n) ==
    LET first == FirstOccurrences(keyOf, n)
    IN [k \in DOMAIN first |-> AscSeq({i \in 1..n : keyOf[i] = keyOf[first[k]]})]

DomainsExc(e) == Then(RequestExc(e), StatusCmpExc(e))

_analyze_domains(es) ==
    LET keyOf == [i \in DOMAIN es |-> Netloc(Url(es[i]))]
        groups == GroupsBy(keyOf, Len(es))
        stat(g) ==
            LET count == Len(g)
                errors == Cardinality({i \in Range(g) : IsHttpError(es[i])})
            IN [domain |-> keyOf[g[1]],
                request_count |-> count,
                total_size |-> _format_size(SumSeq([k \in DOMAIN g |-> Size(es[g[k]])])),
                avg_time |-> Fixed(SumSeq([k \in DOMAIN g |-> Time(es[g[k]])]), count, 2),
                error_count |-> errors,
                error_rate |-> Percent(errors, count)]
        formatted_stats == [k \in DOMAIN groups |-> stat(groups[k])]
    IN Outcome(ExcOver(es, DomainsExc),
           [total_domains |-> Len(groups),
            domain_stats |->
                SortedDesc(formatted_stats,
                           [k \in DOMAIN formatted_stats |-> formatted_stats[k].request_count])])

_analyze_file_types(es) ==
    LET keyOf == [i \in DOMAIN es |-> _get_content_type(es[i])]
        groups == GroupsBy(keyOf, Len(es))
        total_requests == Len(es)
        stat(g) ==
            LET total_size == SumSeq([k \in DOMAIN g |-> Size(es[g[k]])])
            IN [type |-> keyOf[g[1]],
                count |-> Len(g),
                total_size |-> _format_size(total_size),
                avg_size |-> FormatSizeQ(total_size, Len(g)),
                percentage |-> Percent(Len(g), total_requests)]
        formatted_types == [k \in DOMAIN groups |-> stat(groups[k])]
    IN Outcome(ExcOver(es, ResponseExc),
           SortedDesc(formatted_types,
                      [k \in DOMAIN formatted_types |-> formatted_types[k].count]))

\* Entry e gets a timeline item (lines 850-863): its start time is neither
\* empty nor null, it parses, and building the item raises nothing (the item is
\* built inside the try block, whose except clause drops it).
InTimeline(e) ==
    /\ e.shape # "started_null"
    /\ Started(e).kind # "empty"
    /\ ~FromIsoFails(ReplaceZ(Started(e)))
    /\ RequestExc(e) = ""
    /\ ResponseExc(e) = ""

TimelineItem(es, i) ==
    [index |-> i,
     time |-> IsoFormat(StartParsed(es[i])),
     url |-> Url(es[i]),
     method |-> Method(es[i]),
     status |-> Status(es[i]),
     duration |-> Time(es[i])]

RECURSIVE SortByText(_, _)
\* sorted(items, key=lambda x: x["time"]) on the positions S of items:
\* ascending in python's string order, and stable.
SortByText(items, S) ==
    IF S = {} THEN <<>>
    ELSE LET least == {i \in S : \A j \in S : ~StrLess(items[j].time, items[i].time)}
             first == SetMin(least)
         IN <<items[first]>> \o SortByText(items, S \ {first})

\* The order sorted() gives the timeline (line 865).
TimelineOrder(items) == SortByText(items, DOMAIN items)

_create_timeline(es) ==
    LET ix == Offenders(es, InTimeline)
    IN Ok(TimelineOrder([k \in DOMAIN ix |-> TimelineItem(es, ix[k])]))

----------------------------------------------------------------------------
(* analyze                                                                 *)

\* The dict literal of lines 16-25 from the outcomes of its eight values, which
\* it evaluates in order, so the first exception ends the call: the outcome
\* (`out`), and self.entries and the catalog dict as the call leaves them.
JoinReport(es, es1, heap, summary, requests, performance, errors, anomalies, domains, file_types, timeline) ==
    LET before_performance == Then(summary.exc, requests.exc)
        before_errors == Then(before_performance, performance.exc)
        exc == FirstExc(<<before_errors, errors.out.exc, anomalies.exc, domains.exc,
                          file_types.exc, timeline.exc>>)
    IN [out |-> Outcome(exc,
                   [summary |-> summary.val,
                    requests |-> requests.val,
                    performance |-> performance.val,
                    errors |-> errors.out.val,
                    anomalies |-> anomalies.val,
                    domains |-> domains.val,
                    file_types |-> file_types.val,
                    timeline |-> timeline.val]),
        entries |-> IF before_performance = "" THEN es1 ELSE es,
        heap |-> IF before_errors = "" THEN errors.heap ELSE heap]

\* analyze() on self.entries = es at clock reading `now`, with `heap` the
\* catalog dict left by earlier calls.  The performance analysis leaves
\* self.entries as es1 for the analyses after it.
analyze(es, heap, now) ==
    LET es1 == PerformanceEffect(es)
    IN JoinReport(es, es1, heap, _get_summary(es, now), _analyze_requests(es),
                  _analyze_performance(es), _analyze_errors(es1, heap),
                  _analyze_anomalies(es1), _analyze_domains(es1),
                  _analyze_file_types(es1), _create_timeline(es1))

\* HarAnalyzer.__init__ (lines 10-12): self.entries for a document.
InitEntries(doc) == IF doc.shape \in {"no_log", "no_entries"} THEN <<>> ELSE doc.entries

----------------------------------------------------------------------------
(* The analyzer as a state machine                                         *)

AnalysisNames ==
    {"summary", "requests", "performance", "errors", "redirect_loops",
     "duplicate_requests", "suspicious_patterns", "performance_issues",
     "security_concerns", "domains", "file_types", "timeline"}

\* An analysis that has not run.
NotRun == [ok |-> FALSE, exc |-> "not run", val |-> <<>>]

MaxCalls == 2

\* The clock readings of a run, and the analyzers built from the document.
ClockValues == 0..1

Analyzers == {1, 2}

\* The state after HarAnalyzer(doc) for a document of the set Docs.
InitWith(Docs) ==
    /\ har_data \in Docs
    /\ entries = InitEntries(har_data)
    /\ error_info = NoErrorInfo
    /\ clock = 0
    /\ calls = <<>>
    /\ slots = [a \in AnalysisNames |-> NotRun]

\* A second passes.
Tick ==
    /\ clock + 1 \in ClockValues
    /\ clock' = clock + 1
    /\ UNCHANGED <<har_data, entries, error_info, calls, slots>>

\* A call of analyze() on one of the analyzers built from the document; they
\* share the document, so the list self.entries is the same object for all.
Analyze ==
    /\ Len(calls) < MaxCalls
    /\ \E a \in Analyzers :
         LET r == analyze(entries, error_info, clock)
         IN /\ calls' = Append(calls, [analyzer |-> a, out |-> r.out])
            /\ entries' = r.entries
            /\ error_info' = r.heap
    /\ UNCHANGED <<har_data, clock, slots>>

\* One analysis run on its own: it writes its result slot.
Fill(name, outcome) ==
    /\ slots[name] = NotRun
    /\ slots' = [slots EXCEPT ![name] = outcome]
    /\ UNCHANGED <<har_data, clock, calls>>

RunSummary == Fill("summary", _get_summary(entries, clock)) /\ UNCHANGED <<entries, error_info>>

RunRequests == Fill("requests", _analyze_requests(entries)) /\ UNCHANGED <<entries, error_info>>

RunPerformance ==
    /\ Fill("performance", _analyze_performance(entries))
    /\ entries' = PerformanceEffect(entries)
    /\ UNCHANGED error_info

RunErrors ==
    LET r == _analyze_errors(entries, error_info)
    IN /\ Fill("errors", r.out)
       /\ error_info' = r.heap
       /\ UNCHANGED entries

RunRedirectLoops ==
    Fill("redirect_loops", _detect_redirect_loops(entries)) /\ UNCHANGED <<entries, error_info>>

RunDuplicateRequests ==
    Fill("duplicate_requests", _detect_duplicate_requests(entries))
    /\ UNCHANGED <<entries, error_info>>

RunSuspiciousPatterns ==
    Fill("suspicious_patterns", _detect_suspicious_patterns(entries))
    /\ UNCHANGED <<entries, error_info>>

RunPerformanceIssues ==
    Fill("performance_issues", _detect_performance_issues(entries))
    /\ UNCHANGED <<entries, error_info>>

RunSecurityConcerns ==
    Fill("security_concerns", _detect_security_concerns(entries))
    /\ UNCHANGED <<entries, error_info>>

RunDomains == Fill("domains", _analyze_domains(entries)) /\ UNCHANGED <<entries, error_info>>

RunFileTypes == Fill("file_types", _analyze_file_types(entries)) /\ UNCHANGED <<entries, error_info>>

RunTimeline == Fill("timeline", _create_timeline(entries)) /\ UNCHANGED <<entries, error_info>>

----------------------------------------------------------------------------
(* Documents                                                               *)

\* An entry with every field at a plain value.
E0 ==
    [url |-> "https://a.test/x", method |-> "GET", req_headers |-> <<>>,
     status |-> 200, statusText |-> "OK", headers |-> <<>>, size |-> 0, time |-> 0,
     startedDateTime |-> IsoZ(0), serverIPAddress |-> NA,
     dns |-> 0 - 1, connect |-> 0 - 1, ssl |-> 0 - 1,
     postData |-> NoBody, content |-> [present |-> TRUE, mimeType |-> "", text |-> NoText],
     shape |-> "ok"]

\* The documents with a list of at most n entries drawn from kinds.
DocsOf(kinds, n) ==
    {[shape |-> "ok", entries |-> es] : es \in UNION {[1..k -> kinds] : k \in 0..n}}

\* Documents without the log key, and with a log without the entries key.
KeylessDocs == {[shape |-> sh, entries |-> <<>>] : sh \in {"no_log", "no_entries"}}

MaxEntries == 2

\* Entries that differ in status, server IP, URL, duration and size.
StatusEntries ==
    {[E0 EXCEPT !.time = 5, !.size = 1024],
     [E0 EXCEPT !.status = 101, !.statusText = "Switching Protocols", !.time = 9],
     [E0 EXCEPT !.status = 404, !.statusText = "Not Found", !.time = 7, !.size = 10],
     [E0 EXCEPT !.status = 404, !.statusText = "Not Found", !.url = "http://b.test/x",
                !.serverIPAddress = "10.0.0.1", !.size = 2048],
     [E0 EXCEPT !.status = 418, !.statusText = "", !.serverIPAddress = "10.0.0.2"],
     [E0 EXCEPT !.shape = "response_absent"]}

Init == InitWith(DocsOf(StatusEntries, MaxEntries) \cup KeylessDocs)

Next == Analyze \/ Tick

\* analyze() called repeatedly on analyzers built from one document.
Spec == Init /\ [][Next]_vars

----------------------------------------------------------------------------
(* Claims about analyze() called repeatedly (specification Spec)           *)

\* The entries of the document as handed to the constructor.
DocEntries == InitEntries(har_data)

\* The reports of the calls that returned.
Returned == {k \in DOMAIN calls : calls[k].out.ok}

ReportOf(k) == calls[k].out.val

\* C1 (as claimed): in every report, successful_requests + failed_requests =
\* total_requests, an entry is counted successful iff 200 <= status < 400,
\* and the entries counted in failed_requests are those with status >= 400
\* or status = 0.
C1_FailedAreFailures ==
    \A k \in Returned :
        LET s == ReportOf(k).summary
            es == DocEntries
        IN /\ s.successful_requests + s.failed_requests = s.total_requests
           /\ s.total_requests = Len(es)
           /\ s.successful_requests =
                  Cardinality({i \in DOMAIN es : 200 <= Status(es[i]) /\ Status(es[i]) < 400})
           /\ s.failed_requests =
                  Cardinality({i \in DOMAIN es : Status(es[i]) >= 400 \/ Status(es[i]) = 0})

\* C2: for the empty document (no entries, no entries key, or no log key)
\* analyze() returns a report; both rates are "0%", every count is 0 and
\* every list or aggregate of the report is empty, with has_anomalies false.
C2_EmptyDocumentReport ==
    DocEntries = <<>> =>
        \A k \in DOMAIN calls :
            /\ calls[k].out.ok
            /\ LET r == ReportOf(k) IN
               /\ r.summary.total_requests = 0
               /\ r.summary.successful_requests = 0
               /\ r.summary.failed_requests = 0
               /\ r.summary.success_rate = [literal0 |-> TRUE, tenths |-> 0]
               /\ r.summary.avg_response_time = 0
               /\ r.summary.total_time = 0
               /\ r.summary.total_size = [unit |-> 0, tenths |-> 0 - 1]
               /\ r.requests = <<>>
               /\ DOMAIN r.performance = {}
               /\ r.errors.total_errors = 0
               /\ r.errors.error_rate = [literal0 |-> TRUE, tenths |-> 0]
               /\ DOMAIN r.errors.error_breakdown = {}
               /\ r.errors.detailed_errors = <<>>
               /\ r.anomalies.redirect_loops = <<>>
               /\ r.anomalies.duplicate_requests = <<>>
               /\ r.anomalies.suspicious_patterns = <<>>
               /\ r.anomalies.performance_issues = <<>>
               /\ r.anomalies.security_concerns = <<>>
               /\ r.anomalies.total_anomalies = 0
               /\ r.anomalies.has_anomalies = FALSE
               /\ r.domains.total_domains = 0
               /\ r.domains.domain_stats = <<>>
               /\ r.file_types = <<>>
               /\ r.timeline = <<>>

\* analyze() has returned for a document without the log key.
C2_Witness == har_data.shape = "no_log" /\ Len(calls) > 0 /\ calls[1].out.ok

\* An outcome without the generation timestamp of its summary.
WithoutAnalysisTime(out) ==
    IF out.ok THEN [out EXCEPT !.val.summary.analysis_time = 0] ELSE out

\* The error records of a report are those of its own failures: the
\* whitelist_info of a record, when present, names the server IP and the
\* domain of the failure the record is returned for, and a failure without a
\* server IP gets a record without whitelist_info; the domain and IP a record
\* interpolates are its failure's.
OwnErrorRecords(r) ==
    \A n \in DOMAIN r.errors.detailed_errors :
        LET d == r.errors.detailed_errors[n]
            a == d.error_analysis
        IN /\ a.whitelist_info \in {<<>>, <<[ip |-> d.server_ip, domain |-> d.domain]>>}
           /\ d.server_ip = NA => a.whitelist_info = <<>>
           /\ a.domain \in {"", d.domain}
           /\ a.server_ip \in {"", d.server_ip}
           /\ a.status = d.status

\* C4: the outcomes of any two analyze() calls on the document (by the same
\* analyzer or by two analyzers built from it) are equal in every field but
\* summary.analysis_time, and every error record is that of its own failure.
C4_Idempotent ==
    /\ \A i, j \in DOMAIN calls :
           WithoutAnalysisTime(calls[i].out) = WithoutAnalysisTime(calls[j].out)
    /\ \A k \in Returned : OwnErrorRecords(ReportOf(k))

\* Two analyzers have each analysed, at different clock readings, a document
\* in which a failure without server IP and a failure with one share a status.
C4_Witness ==
    /\ Len(calls) >= 2
    /\ calls[1].analyzer # calls[2].analyzer
    /\ calls[1].out.ok /\ calls[2].out.ok
    /\ calls[1].out.val.summary.analysis_time # calls[2].out.val.summary.analysis_time
    /\ \E i, j \in DOMAIN DocEntries :
           /\ i < j
           /\ Status(DocEntries[i]) = 404 /\ Status(DocEntries[j]) = 404
           /\ ServerIp(DocEntries[i]) = NA /\ ServerIp(DocEntries[j]) # NA

----------------------------------------------------------------------------
(* The analyses run one by one in any order (specification SpecOrder)      *)

MaxOrderLen == 2

\* Two entries whose order differs by duration and by size.
OrderEntries ==
    {[E0 EXCEPT !.time = 5, !.size = 2048],
     [E0 EXCEPT !.status = 404, !.statusText = "Not Found", !.url = "http://b.test/x",
                !.serverIPAddress = "10.0.0.1", !.time = 9, !.size = 10]}

InitOrder == InitWith(DocsOf(OrderEntries, MaxOrderLen))

AllRun == \A a \in AnalysisNames : slots[a] # NotRun

\* analyze() called once every analysis has also been run on its own.
AnalyzeAfterRuns == AllRun /\ Analyze

NextOrder ==
    \/ RunSummary
    \/ RunRequests
    \/ RunPerformance
    \/ RunErrors
    \/ RunRedirectLoops
    \/ RunDuplicateRequests
    \/ RunSuspiciousPatterns
    \/ RunPerformanceIssues
    \/ RunSecurityConcerns
    \/ RunDomains
    \/ RunFileTypes
    \/ RunTimeline
    \/ AnalyzeAfterRuns

SpecOrder == InitOrder /\ [][NextOrder]_vars

\* The report joined from the result slots, as analyze() joins its values.
JoinedSlots ==
    LET anomalies == JoinAnomalies(slots["redirect_loops"], slots["duplicate_requests"],
                                   slots["suspicious_patterns"], slots["performance_issues"],
                                   slots["security_concerns"])
        exc == FirstExc(<<slots["summary"].exc, slots["requests"].exc,
                          slots["performance"].exc, slots["errors"].exc, anomalies.exc,
                          slots["domains"].exc, slots["file_types"].exc,
                          slots["timeline"].exc>>)
    IN Outcome(exc,
           [summary |-> slots["summary"].val,
            requests |-> slots["requests"].val,
            performance |-> slots["performance"].val,
            errors |-> slots["errors"].val,
            anomalies |-> anomalies.val,
            domains |-> slots["domains"].val,
            file_types |-> slots["file_types"].val,
            timeline |-> slots["timeline"].val])

\* C5: whatever analyses have run, in whatever order, and however often
\* analyze() was called, the entry list is the one handed to the constructor:
\* same length, same order, same fields.
C5_InputUnchanged == entries = DocEntries

\* Every analysis and analyze() have run on a document that a sort by duration
\* would reorder.
C5_Witness ==
    /\ AllRun
    /\ Len(calls) > 0
    /\ \E i, j \in DOMAIN DocEntries :
           i < j /\ Time(DocEntries[i]) < Time(DocEntries[j])

\* C6: once the eight analyses (the anomaly analysis as its five detectors)
\* have run one by one in any order, the report joined from their results is
\* the report of analyze() in its sequential order on the document, but for
\* the generation timestamp.
C6_OrderIndependent ==
    AllRun =>
        /\ WithoutAnalysisTime(JoinedSlots)
             = WithoutAnalysisTime(analyze(DocEntries, NoErrorInfo, 0).out)
        /\ \A k \in DOMAIN calls :
               WithoutAnalysisTime(JoinedSlots) = WithoutAnalysisTime(calls[k].out)

\* All analyses have run and analyze() has returned a report with a failure
\* and two domains, for a document a sort by size would reorder.
C6_Witness ==
    /\ AllRun
    /\ \E k \in Returned :
           /\ ReportOf(k).errors.total_errors > 0
           /\ ReportOf(k).domains.total_domains = 2
    /\ \E i, j \in DOMAIN DocEntries :
           i < j /\ Size(DocEntries[i]) < Size(DocEntries[j])

----------------------------------------------------------------------------
(* analyze() on documents that depart from the schema (SpecShape)          *)

MaxShapeLen == 2

\* One entry per shape, each with a 200 and with a 404 response.
ShapeEntries ==
    {[E0 EXCEPT !.shape = sh, !.status = st] : sh \in Shapes, st \in {200, 404}}

\* Four requests of one URL whose start times are ISO-8601 texts, some with
\* the designator Z and some without any offset.
MixedZoneDocs ==
    {[shape |-> "ok", entries |-> [i \in 1..4 |-> [E0 EXCEPT !.startedDateTime = ts[i]]]] :
        ts \in [1..4 -> {IsoZ(0), IsoNaive(1)}]}

InitShape ==
    InitWith(DocsOf(ShapeEntries, MaxShapeLen) \cup KeylessDocs \cup MixedZoneDocs)

NextShape == Analyze

SpecShape == InitShape /\ [][NextShape]_vars

\* C3 (as claimed): analyze() never raises: whatever fields of the document
\* are absent, null, or start times that mix texts with and without an
\* offset, every call returns the full report.
C3_NeverRaises == \A k \in DOMAIN calls : calls[k].out.ok

----------------------------------------------------------------------------
(* The timeline (SpecTimeline)                                             *)

MaxTimelineLen == 3

\* Entries that differ in start time: empty, absent, unparsable, and ISO-8601
\* texts with Z, with a positive and a negative offset and without offset.
TimelineEntries ==
    {[E0 EXCEPT !.startedDateTime = EmptyTime],
     [E0 EXCEPT !.shape = "started_absent"],
     [E0 EXCEPT !.startedDateTime = BadTime],
     [E0 EXCEPT !.startedDateTime = IsoZ(100)],
     [E0 EXCEPT !.startedDateTime = IsoOff(7200, 7200)],
     [E0 EXCEPT !.startedDateTime = IsoOff(50, 0 - 3600)],
     [E0 EXCEPT !.startedDateTime = IsoNaive(200)]}

\* The start time of a document entry parses: it is an ISO-8601 text.
StartParses(e) == e.shape # "started_absent" /\ e.startedDateTime.kind = "iso"

\* The instant an ISO-8601 start time denotes: its wall time less its offset.
StartInstant(e) == e.startedDateTime.local - e.startedDateTime.off

\* The entries whose start time parses start at pairwise different instants.
DistinctStarts(es) ==
    \A i, j \in DOMAIN es :
        (i # j /\ StartParses(es[i]) /\ StartParses(es[j]))
            => StartInstant(es[i]) # StartInstant(es[j])

InitTimeline ==
    InitWith({d \in DocsOf(TimelineEntries, MaxTimelineLen) : DistinctStarts(d.entries)})

NextTimeline == RunTimeline \/ RunSummary \/ RunRequests

SpecTimeline == InitTimeline /\ [][NextTimeline]_vars

\* C7 (as claimed): the timeline holds exactly the entries whose start time
\* parses, each once with its 1-based index in the document; the others are
\* still counted in summary.total_requests and listed in the request list;
\* and the timeline items are in strictly ascending order of the instants
\* their start times denote.
C7_TimelineByInstant ==
    LET es == DocEntries
        tl == slots["timeline"].val
    IN /\ slots["timeline"] # NotRun =>
             /\ slots["timeline"].ok
             /\ {tl[k].index : k \in DOMAIN tl} = {i \in DOMAIN es : StartParses(es[i])}
             /\ Len(tl) = Cardinality({i \in DOMAIN es : StartParses(es[i])})
             /\ \A k \in 1..(Len(tl) - 1) :
                    StartInstant(es[tl[k].index]) < StartInstant(es[tl[k + 1].index])
       /\ slots["summary"] # NotRun =>
             slots["summary"].val.total_requests = Len(es)
       /\ slots["requests"] # NotRun =>
             /\ Len(slots["requests"].val) = Len(es)
             /\ \A i \in DOMAIN es : slots["requests"].val[i].index = i

----------------------------------------------------------------------------
(* The redirect detector (SpecRedirect)                                    *)

MaxRedirectLen == 4

\* The response headers of the redirect entries: none, a Location, a
\* lower-case location, and an empty Location followed by a filled one.
RedirectHeaders ==
    {<<>>,
     <<[name |-> "Location", value |-> "https://a.test/x"]>>,
     <<[name |-> "location", value |-> "https://a.test/y"]>>,
     <<[name |-> "Location", value |-> ""],
       [name |-> "location", value |-> "https://a.test/y"]>>}

\* 301 responses to two URLs with each of the header lists, and a 200
\* response that carries a Location.
RedirectEntries ==
    {[E0 EXCEPT !.url = u, !.status = 301, !.statusText = "Moved", !.headers = h] :
        u \in {"https://a.test/x", "https://a.test/y"}, h \in RedirectHeaders}
    \cup {[E0 EXCEPT !.headers = <<[name |-> "Location", value |-> "https://a.test/x"]>>]}

InitRedirect == InitWith(DocsOf(RedirectEntries, MaxRedirectLen))

NextRedirect == RunRedirectLoops

SpecRedirect == InitRedirect /\ [][NextRedirect]_vars

\* The header names that read "location" when case is ignored.
LocationNames == {"Location", "location", "LOCATION"}

\* The first header of entry e named Location in any case; 0 if none.
FirstLocation(e) ==
    IF \E i \in DOMAIN e.headers : e.headers[i].name \in LocationNames
    THEN CHOOSE i \in DOMAIN e.headers :
            /\ e.headers[i].name \in LocationNames
            /\ \A j \in 1..(i - 1) : e.headers[j].name \notin LocationNames
    ELSE 0

\* Entry e has a Location header.
HasLocation(e) == FirstLocation(e) # 0

\* Entry e has a Location header and the first one has a value.
HasFilledLocation(e) == FirstLocation(e) # 0 /\ e.headers[FirstLocation(e)].value # ""

\* The contract of the redirect detector, with Counts(e) telling which 3xx
\* entries are hops: per URL, at most one hop: no finding; two or three: one
\* medium frequent-redirect finding; more: one high redirect-loop finding
\* with the whole chain if some hop's target is the from URL of an earlier
\* hop of the URL, and none otherwise.
RedirectContract(Counts(_)) ==
    LET es == DocEntries
        out == slots["redirect_loops"]
        urls == {es[i].url : i \in DOMAIN es}
        HopsOf(u) == {i \in DOMAIN es : /\ es[i].url = u
                                         /\ es[i].status >= 300 /\ es[i].status < 400
                                         /\ Counts(es[i])}
        Target(i) == es[i].headers[FirstLocation(es[i])].value
        Revisits(u) == \E k, l \in HopsOf(u) : k < l /\ Target(l) = es[k].url
        FindingsOf(u) == {k \in DOMAIN out.val : out.val[k].url = u}
        TheFinding(u) == out.val[CHOOSE k \in FindingsOf(u) : TRUE]
        Expected(u) ==
            IF Cardinality(HopsOf(u)) > 3
            THEN IF Revisits(u) THEN "redirect_loop" ELSE "none"
            ELSE IF Cardinality(HopsOf(u)) > 1 THEN "frequent_redirect" ELSE "none"
    IN out # NotRun =>
        /\ out.ok
        /\ \A k \in DOMAIN out.val : out.val[k].url \in urls
        /\ \A u \in urls :
              IF Expected(u) = "none" THEN FindingsOf(u) = {}
              ELSE /\ Cardinality(FindingsOf(u)) = 1
                   /\ TheFinding(u).type = Expected(u)
                   /\ TheFinding(u).severity =
                         (IF Expected(u) = "redirect_loop" THEN "high" ELSE "medium")
                   /\ TheFinding(u).chain_length = Cardinality(HopsOf(u))
                   /\ [k \in DOMAIN TheFinding(u).chain |-> TheFinding(u).chain[k].index]
                         = AscSeq(HopsOf(u))
                   /\ \A k \in DOMAIN TheFinding(u).chain :
                         /\ TheFinding(u).chain[k].from_url = u
                         /\ TheFinding(u).chain[k].to_url = Target(TheFinding(u).chain[k].index)

\* C8 (amended): the contract of the redirect detector holds when the hops
\* of a URL are its 3xx entries whose first Location header, in any case,
\* has a non-empty value.
C8_RedirectFindings == RedirectContract(HasFilledLocation)

\* C8 (as claimed): the contract of the redirect detector holds when the
\* hops of a URL are its 3xx entries that have a Location header, in any
\* case, whatever its value.
C8_AnyLocationHeader == RedirectContract(HasLocation)

\* A URL with four hops, of which the first leads elsewhere and a later one
\* leads back to it, is reported as a redirect loop.
C8_Witness ==
    /\ slots["redirect_loops"] # NotRun
    /\ \E k \in DOMAIN slots["redirect_loops"].val :
          /\ slots["redirect_loops"].val[k].type = "redirect_loop"
          /\ slots["redirect_loops"].val[k].chain_length = 4
          /\ slots["redirect_loops"].val[k].chain[1].to_url # slots["redirect_loops"].val[k].url
    /\ Len(DocEntries) = 4

\* The hops of the document in order: its 3xx entries whose first Location
\* header has a value.
DocHops ==
    AscSeq({i \in DOMAIN DocEntries :
               /\ DocEntries[i].status >= 300 /\ DocEntries[i].status < 400
               /\ HasFilledLocation(DocEntries[i])})

\* The target of the k-th hop of the document.
HopTarget(k) == DocEntries[DocHops[k]].headers[FirstLocation(DocEntries[DocHops[k]])].value

\* The hops of the document form a chain, each leading to the URL the next
\* one starts from, of at least 4 hops, and one of them leads to the URL an
\* earlier one started from.
ChainRevisits ==
    /\ Len(DocHops) >= 4
    /\ \A k \in 1..(Len(DocHops) - 1) : HopTarget(k) = DocEntries[DocHops[k + 1]].url
    /\ \E k, l \in DOMAIN DocHops : k < l /\ HopTarget(l) = DocEntries[DocHops[k]].url

\* C23 (as claimed): whenever the 3xx entries of the document form a redirect
\* chain of at least 4 hops in which a hop leads to the URL of an earlier
\* hop, also when the hops start from different URLs (A to B, B to A,
\* repeated), the redirect detector reports a high-severity redirect loop.
C23_LoopAcrossUrls ==
    (slots["redirect_loops"] # NotRun /\ ChainRevisits) =>
        /\ slots["redirect_loops"].ok
        /\ \E k \in DOMAIN slots["redirect_loops"].val :
              /\ slots["redirect_loops"].val[k].type = "redirect_loop"
              /\ slots["redirect_loops"].val[k].severity = "high"

----------------------------------------------------------------------------
(* The duplicate-request detector (SpecDup)                                *)

MaxDupLen == 4

\* Requests of one URL that differ in start time: unparsable, three texts
\* with Z, one with an offset and one without any; and a request of another
\* URL.
DupEntries ==
    {[E0 EXCEPT !.startedDateTime = t] :
        t \in {BadTime, IsoZ(0), IsoZ(1), IsoZ(40), IsoOff(3602, 3600), IsoNaive(5)}}
    \cup {[E0 EXCEPT !.url = "https://a.test/y"]}

\* Documents long enough for two groups of different sizes that are both
\* over the threshold, in every interleaving.
TwoGroupDocs ==
    {[shape |-> "ok", entries |-> es] :
        es \in [1..(2 * DuplicateMinCount + 3) ->
                  {E0, [E0 EXCEPT !.url = "https://a.test/y"],
                   [E0 EXCEPT !.url = "https://a.test/y", !.startedDateTime = IsoZ(40)]}]}

InitDup == InitWith(DocsOf(DupEntries, MaxDupLen) \cup TwoGroupDocs)

NextDup == RunDuplicateRequests

SpecDup == InitDup /\ [][NextDup]_vars

\* The occurrences in the document of the request method m to url u.
Occurrences(m, u) ==
    {i \in DOMAIN DocEntries : DocEntries[i].method = m /\ DocEntries[i].url = u}

\* The occurrences whose start time is an ISO-8601 text.
ParsedOccurrences(m, u) ==
    {i \in Occurrences(m, u) : DocEntries[i].startedDateTime.kind = "iso"}

\* The findings the detector has produced: none when it raised.
DupFindings ==
    IF slots["duplicate_requests"].ok THEN slots["duplicate_requests"].val ELSE <<>>

\* C9 (as claimed): a method:url group has a finding iff it has more than 3
\* occurrences and at least 2 of its start times parse; it then has exactly
\* one, whose count is the number of occurrences; and the findings are
\* listed by count, largest first.
C9_FindingIffRepeated ==
    slots["duplicate_requests"] # NotRun =>
        /\ \A i \in DOMAIN DocEntries :
              LET m == DocEntries[i].method
                  u == DocEntries[i].url
                  found == {k \in DOMAIN DupFindings :
                               DupFindings[k].method = m /\ DupFindings[k].url = u}
              IN IF Cardinality(Occurrences(m, u)) > 3
                    /\ Cardinality(ParsedOccurrences(m, u)) >= 2
                 THEN /\ Cardinality(found) = 1
                      /\ \A k \in found : DupFindings[k].count = Cardinality(Occurrences(m, u))
                 ELSE found = {}
        /\ \A k \in DOMAIN DupFindings :
              \E i \in DOMAIN DocEntries :
                  DocEntries[i].method = DupFindings[k].method
                  /\ DocEntries[i].url = DupFindings[k].url
        /\ \A k \in 1..(Len(DupFindings) - 1) :
              DupFindings[k].count >= DupFindings[k + 1].count

\* The instants of the parsed start times of a group.
ParsedInstants(m, u) ==
    {DocEntries[i].startedDateTime.local - DocEntries[i].startedDateTime.off :
        i \in ParsedOccurrences(m, u)}

\* tenths is num/den seconds rounded to a tenth of a second: they differ by
\* at most half a tenth.
IsTenthsOf(tenths, num, den) ==
    2 * den * tenths - den <= 20 * num /\ 20 * num <= 2 * den * tenths + den

\* The contract of the average interval, with Intervals(f) the number of
\* intervals the span of finding f is divided by: avg_interval is the span
\* from the earliest to the latest start over that number, and the severity
\* is high below 1 s, medium from 1 s to below 10 s, low from 10 s on.
IntervalContract(Intervals(_)) ==
    slots["duplicate_requests"] # NotRun =>
        \A k \in DOMAIN DupFindings :
            LET f == DupFindings[k]
                span == SetMax(ParsedInstants(f.method, f.url))
                          - SetMin(ParsedInstants(f.method, f.url))
                n == Intervals(f)
            IN /\ n > 0
               /\ IsTenthsOf(f.avg_interval, span, n)
               /\ f.severity = (IF span < n THEN "high"
                                ELSE IF span < 10 * n THEN "medium" ELSE "low")

\* The intervals between the occurrences a finding reports.
ReportedIntervals(f) == f.count - 1

\* The intervals between the occurrences of a finding whose start time parses.
ParsedIntervals(f) == Cardinality(ParsedOccurrences(f.method, f.url)) - 1

\* C10 (amended): for every finding, the average interval is (latest start -
\* earliest start) / (p - 1), with p the number of occurrences of the group
\* whose start time parses, and the severity is high if that average is
\* below 1 s, medium if it is at least 1 s and below 10 s, low otherwise.
C10_AverageOverParsed == IntervalContract(ParsedIntervals)

\* C10 (as claimed): for every finding, the average interval is (latest start
\* - earliest start) / (count - 1), with count the occurrence count the
\* finding reports, and the severity follows that average, also when some
\* occurrences have unparsable start times.
C10_AverageOverCount == IntervalContract(ReportedIntervals)

\* A finding for four occurrences of which one has an unparsable start time,
\* rated medium.
C10_Witness ==
    /\ slots["duplicate_requests"] # NotRun
    /\ \E k \in DOMAIN DupFindings :
          /\ DupFindings[k].count = 4
          /\ Cardinality(ParsedOccurrences(DupFindings[k].method, DupFindings[k].url)) = 3
          /\ DupFindings[k].severity = "medium"

----------------------------------------------------------------------------
(* Failures: the error analyzer, the error-rate finding and the domains    *)
(* (SpecFailures)                                                          *)

MaxFailureLen == 3

\* Entries that differ in status (a success, connection failures, catalog
\* statuses with and without interpolated text, a status outside the
\* catalog), in URL and in server IP.
FailureEntries ==
    {E0,
     [E0 EXCEPT !.status = 0, !.statusText = ""],
     [E0 EXCEPT !.status = 0, !.statusText = "", !.url = "http://b.test/x",
                !.serverIPAddress = "10.0.0.1"],
     [E0 EXCEPT !.status = 404, !.statusText = "Not Found"],
     [E0 EXCEPT !.status = 404, !.statusText = "Not Found", !.url = "http://b.test/x",
                !.serverIPAddress = "10.0.0.1"],
     [E0 EXCEPT !.status = 418, !.statusText = "", !.serverIPAddress = "10.0.0.2"],
     [E0 EXCEPT !.status = 500, !.statusText = "Internal Server Error",
                !.serverIPAddress = "10.0.0.2"]}

\* Documents of ten entries, successes and 404 responses: three failures in
\* ten are exactly 30%.
TenEntryDocs ==
    {[shape |-> "ok", entries |-> es] :
        es \in [1..10 -> {E0, [E0 EXCEPT !.status = 404, !.statusText = "Not Found"]}]}

InitFailures == InitWith(DocsOf(FailureEntries, MaxFailureLen) \cup TenEntryDocs)

NextFailures == RunErrors \/ RunSuspiciousPatterns \/ RunDomains

SpecFailures == InitFailures /\ [][NextFailures]_vars

\* The failures of the document: the entries with status >= 400 or status 0.
FailureIndices ==
    {i \in DOMAIN DocEntries : DocEntries[i].status >= 400 \/ DocEntries[i].status = 0}

\* C11 (as claimed): the suspicious-pattern detector emits the high-severity
\* high-error-rate finding iff the document is non-empty and more than 30% of
\* its entries are failures (status >= 400 or status 0), the count the error
\* analyzer reports as total_errors.
C11_ErrorRateOverFailures ==
    LET sp == slots["suspicious_patterns"]
        found == {k \in DOMAIN sp.val : sp.val[k].type = "high_error_rate"}
    IN /\ sp # NotRun =>
            /\ sp.ok
            /\ found # {} <=>
                  (DocEntries # <<>>
                   /\ 10 * Cardinality(FailureIndices) > 3 * Len(DocEntries))
            /\ \A k \in found : sp.val[k].severity = "high"
       /\ slots["errors"] # NotRun =>
            slots["errors"].val.total_errors = Cardinality(FailureIndices)

----------------------------------------------------------------------------
(* The performance-issue detector (SpecTimings)                            *)

MaxTimingLen == 3

\* Entries without timings, with every timing at the sentinel -1, with one
\* timing at its threshold or one millisecond over it, and with all three
\* over their thresholds.
TimingEntries ==
    {E0,
     [E0 EXCEPT !.shape = "timings_absent", !.dns = 5000, !.connect = 5000, !.ssl = 5000],
     [E0 EXCEPT !.dns = 1000], [E0 EXCEPT !.dns = 1001],
     [E0 EXCEPT !.connect = 3000], [E0 EXCEPT !.connect = 3001],
     [E0 EXCEPT !.ssl = 2000], [E0 EXCEPT !.ssl = 2001],
     [E0 EXCEPT !.dns = 1001, !.connect = 3001, !.ssl = 2001]}

InitTimings == InitWith(DocsOf(TimingEntries, MaxTimingLen))

NextTimings == RunPerformanceIssues

SpecTimings == InitTimings /\ [][NextTimings]_vars

\* The entries of the document that have the timing `kind` and whose value
\* of it is over `limit`.
OverLimit(kind, limit) ==
    {i \in DOMAIN DocEntries :
        /\ DocEntries[i].shape # "timings_absent"
        /\ DocEntries[i][kind] # 0 - 1
        /\ DocEntries[i][kind] > limit}

\* The findings of one type are at most one; there is one iff some entry is
\* over the limit, and it lists exactly those entries by 1-based index.
OneTimingFinding(type, severity, kind, limit) ==
    LET out == slots["performance_issues"].val
        found == {k \in DOMAIN out : out[k].type = type}
    IN /\ Cardinality(found) <= 1
       /\ found # {} <=> OverLimit(kind, limit) # {}
       /\ \A k \in found :
             /\ out[k].severity = severity
             /\ Len(out[k].requests) = Cardinality(OverLimit(kind, limit))
             /\ {out[k].requests[n] : n \in DOMAIN out[k].requests} = OverLimit(kind, limit)

\* C12: for each timing kind (dns > 1000 ms medium, connect > 3000 ms high,
\* ssl > 2000 ms medium) at most one finding is emitted; it is emitted iff
\* some entry exceeds the threshold strictly, it lists exactly the offending
\* entries with their 1-based indices, and an entry whose timing is -1 or
\* absent is never listed.
C12_TimingFindings ==
    slots["performance_issues"] # NotRun =>
        /\ slots["performance_issues"].ok
        /\ OneTimingFinding("dns_slow", "medium", "dns", 1000)
        /\ OneTimingFinding("connect_slow", "high", "connect", 3000)
        /\ OneTimingFinding("ssl_slow", "medium", "ssl", 2000)
        /\ Len(slots["performance_issues"].val) <= 3

\* A document with an entry at the DNS threshold, an entry over it and an
\* entry without timings, reported with one DNS finding of one request.
C12_Witness ==
    /\ slots["performance_issues"] # NotRun
    /\ \E i, j, k \in DOMAIN DocEntries :
          /\ DocEntries[i].dns = 1000
          /\ DocEntries[j].dns = 1001
          /\ DocEntries[k].shape = "timings_absent"
    /\ \E n \in DOMAIN slots["performance_issues"].val :
          /\ slots["performance_issues"].val[n].type = "dns_slow"
          /\ Len(slots["performance_issues"].val[n].requests) = 1

----------------------------------------------------------------------------
(* The User-Agent rule of the security detector (SpecAgents)               *)

MaxAgentLen == 6

\* Requests without headers, with a header that is not User-Agent, and with
\* a User-Agent that is empty, short (8 characters) or long (25 characters).
AgentEntries ==
    {[E0 EXCEPT !.req_headers = h] :
        h \in {<<>>,
               <<[name |-> "Accept", value |-> "*/*"]>>,
               <<[name |-> "User-Agent", value |-> ""]>>,
               <<[name |-> "user-agent", value |-> "curl/8.0"]>>,
               <<[name |-> "User-Agent", value |-> "Mozilla/5.0 (X11; Linux)"]>>}}

InitAgents == InitWith(DocsOf(AgentEntries, MaxAgentLen))

NextAgents == RunSecurityConcerns

SpecAgents == InitAgents /\ [][NextAgents]_vars

\* The requests of the document that have no User-Agent header, or whose
\* User-Agent is shorter than 20 characters.
WeakAgents ==
    {i \in DOMAIN DocEntries :
        LET h == DocEntries[i].req_headers
            named == {k \in DOMAIN h : h[k].name \in {"User-Agent", "user-agent"}}
        IN named = {} \/ Len(h[SetMin(named)].value) < 20}

\* C13 (as claimed): the low-severity User-Agent finding is emitted iff some
\* request has no User-Agent header at all or a User-Agent shorter than 20
\* characters; its total_count is the number of such requests and it lists
\* the first min(5, total_count) of them in document order.
C13_AbsentOrShortAgent ==
    LET out == slots["security_concerns"]
        found == {k \in DOMAIN out.val : out.val[k].type = "suspicious_user_agent"}
        weak == AscSeq(WeakAgents)
    IN out # NotRun =>
        /\ out.ok
        /\ Cardinality(found) <= 1
        /\ found # {} <=> WeakAgents # {}
        /\ \A k \in found :
              /\ out.val[k].severity = "low"
              /\ out.val[k].total_count = Len(weak)
              /\ out.val[k].requests = SubSeq(weak, 1, IF Len(weak) < 5 THEN Len(weak) ELSE 5)

----------------------------------------------------------------------------
(* The error analyzer on the documents of SpecFailures                     *)

\* The statuses that have a record in the catalog.
C14_Catalog == {400, 401, 403, 404, 405, 408, 429, 500, 502, 503, 504}

\* C14: the k-th item of detailed_errors is the k-th failure of the document
\* (status >= 400 or status 0); the groups of error_breakdown are keyed by
\* status and statusText and each holds, once each and in order, the detailed
\* items of its key, so total_errors = len(detailed_errors) = the sum of the
\* group sizes; and the record of an item is the catalog record of its status
\* for a catalog status, the connection-level record for status 0 and the
\* unknown-error record carrying the status otherwise.
C14_ErrorResolution ==
    LET out == slots["errors"].val
        de == out.detailed_errors
        eb == out.error_breakdown
        fail == AscSeq(FailureIndices)
        KeyOf(e) == <<e.status, e.statusText>>
    IN slots["errors"] # NotRun =>
        /\ slots["errors"].ok
        /\ out.total_errors = Len(fail)
        /\ Len(de) = Len(fail)
        /\ \A k \in DOMAIN de :
              LET e == DocEntries[fail[k]]
              IN /\ de[k].url = e.url /\ de[k].status = e.status
                 /\ de[k].status_text = e.statusText
                 /\ de[k].server_ip = e.serverIPAddress
                 /\ de[k].error_analysis.status = e.status
                 /\ de[k].error_analysis.kind =
                       (IF e.status = 0 THEN "connection"
                        ELSE IF e.status \in C14_Catalog THEN "catalog" ELSE "unknown")
        /\ DOMAIN eb = {KeyOf(DocEntries[i]) : i \in FailureIndices}
        /\ \A key \in DOMAIN eb :
              LET at == AscSeq({k \in DOMAIN de : KeyOf(DocEntries[fail[k]]) = key})
              IN eb[key] = [n \in DOMAIN at |-> de[at[n]]]

\* The errors of a document with a connection failure, a 404 and a 418.
C14_Witness ==
    /\ slots["errors"] # NotRun
    /\ {DocEntries[i].status : i \in DOMAIN DocEntries} = {0, 404, 418}
    /\ slots["errors"].val.total_errors = 3
    /\ Cardinality(DOMAIN slots["errors"].val.error_breakdown) = 3

\* C15 (as claimed): for every failure entry, of any failing status
\* including 0, the diagnostic record contains the allow-list block (domain,
\* IP, ports) iff the entry has a concrete server IP, i.e. not "N/A".
C15_AllowListIffServerIp ==
    LET de == slots["errors"].val.detailed_errors
        fail == AscSeq(FailureIndices)
    IN slots["errors"] # NotRun =>
        /\ Len(de) = Len(fail)
        /\ \A k \in DOMAIN de :
              (de[k].error_analysis.whitelist_info # <<>>)
                  <=> (DocEntries[fail[k]].serverIPAddress # "N/A")

\* C16 (as claimed): every item of detailed_errors carries as its index the
\* 1-based position of that very failure entry in the document, so the
\* indices are pairwise distinct and strictly increasing, also when several
\* entries share url and status.
C16_IndexIsOwnPosition ==
    LET de == slots["errors"].val.detailed_errors
        fail == AscSeq(FailureIndices)
    IN slots["errors"] # NotRun =>
        /\ Len(de) = Len(fail)
        /\ \A k \in DOMAIN de : de[k].index = fail[k]
        /\ \A k \in 1..(Len(de) - 1) : de[k].index < de[k + 1].index

\* The authority of the URLs of the documents.
AuthorityOf(url) == IF url = "http://b.test/x" THEN "b.test" ELSE "a.test"

\* C17 (as claimed): the domain analyzer partitions the entries by URL
\* authority (one group per authority, the request counts summing to the
\* number of entries, total_domains the number of groups); the failure count
\* of a group is the number of its entries with status >= 400 or status 0;
\* and the groups are listed by request count, largest first.
C17_DomainFailures ==
    LET out == slots["domains"].val
        ds == out.domain_stats
        Members(d) == {i \in DOMAIN DocEntries : AuthorityOf(DocEntries[i].url) = d}
    IN slots["domains"] # NotRun =>
        /\ slots["domains"].ok
        /\ out.total_domains = Len(ds)
        /\ {ds[k].domain : k \in DOMAIN ds}
              = {AuthorityOf(DocEntries[i].url) : i \in DOMAIN DocEntries}
        /\ \A k, l \in DOMAIN ds : k # l => ds[k].domain # ds[l].domain
        /\ \A k \in DOMAIN ds :
              /\ ds[k].request_count = Cardinality(Members(ds[k].domain))
              /\ ds[k].error_count = Cardinality(Members(ds[k].domain) \cap FailureIndices)
        /\ \A k \in 1..(Len(ds) - 1) : ds[k].request_count >= ds[k + 1].request_count

----------------------------------------------------------------------------
(* The file-type analyzer (SpecTypes)                                      *)

MaxTypeLen == 4

\* Responses without a content-type header, with one in three spellings of
\* the name, with parameters after the type, and with several of them after
\* another header.
TypeEntries ==
    {[E0 EXCEPT !.headers = h, !.size = 1024] :
        h \in {<<>>,
               <<[name |-> "Content-Type", value |-> "text/html; charset=utf-8"]>>,
               <<[name |-> "content-type", value |-> "text/html"]>>,
               <<[name |-> "CONTENT-TYPE", value |-> "application/json ; charset=utf-8"]>>,
               <<[name |-> "Location", value |-> "https://a.test/y"],
                 [name |-> "content-type", value |-> "image/png"],
                 [name |-> "Content-Type", value |-> "application/json ; charset=utf-8"]>>}}

InitTypes == InitWith(DocsOf(TypeEntries, MaxTypeLen))

NextTypes == RunFileTypes \/ RunRequests

SpecTypes == InitTypes /\ [][NextTypes]_vars

\* The type a header value declares: the text before ';', without the
\* blanks around it.
DeclaredType(value) ==
    IF value = "text/html; charset=utf-8" THEN "text/html"
    ELSE IF value = "application/json ; charset=utf-8" THEN "application/json"
    ELSE value

\* The group of document entry i: the declared type of its first response
\* header named content-type in any case, "unknown" without one.
TypeGroupOf(i) ==
    LET h == DocEntries[i].headers
        named == {k \in DOMAIN h : h[k].name \in {"Content-Type", "content-type", "CONTENT-TYPE"}}
    IN IF named = {} THEN "unknown"
       ELSE DeclaredType(h[CHOOSE k \in named : \A l \in named : k <= l].value)

\* C18: the file-type analyzer counts each entry in exactly one group, the
\* one named by its first content-type header (any case, parameters after
\* ';' stripped) or "unknown"; the counts sum to the number of entries; the
\* groups are listed by count, largest first; and the content_type of an
\* entry in the request list is the name of its group.
C18_FileTypeGroups ==
    LET ft == slots["file_types"].val
        rq == slots["requests"].val
    IN /\ slots["file_types"] # NotRun =>
            /\ slots["file_types"].ok
            /\ {ft[k].type : k \in DOMAIN ft} = {TypeGroupOf(i) : i \in DOMAIN DocEntries}
            /\ \A k, l \in DOMAIN ft : k # l => ft[k].type # ft[l].type
            /\ \A k \in DOMAIN ft :
                  ft[k].count = Cardinality({i \in DOMAIN DocEntries : TypeGroupOf(i) = ft[k].type})
            /\ \A k \in 1..(Len(ft) - 1) : ft[k].count >= ft[k + 1].count
       /\ slots["requests"] # NotRun =>
            /\ slots["requests"].ok
            /\ Len(rq) = Len(DocEntries)
            /\ \A i \in DOMAIN rq : rq[i].content_type = TypeGroupOf(i)

\* Both analyses have run on a document with an entry without content type
\* and two entries with several content-type headers: two groups, the larger
\* first.
C18_Witness ==
    /\ slots["file_types"] # NotRun /\ slots["requests"] # NotRun
    /\ Len(slots["file_types"].val) = 2
    /\ slots["file_types"].val[1].type = "image/png"
    /\ slots["file_types"].val[1].count = 2
    /\ slots["file_types"].val[2].type = "unknown"
    /\ DocEntries[1].headers = <<>>

----------------------------------------------------------------------------
(* The slowest and the largest requests (SpecTop)                          *)

MaxTopLen == 6

\* Documents whose i-th entry answers with status 200 + i, so that an item of
\* a listing tells which entry it is of, with durations of 5 or 9 ms and
\* sizes of 1 or 2 KB in every combination.
TopDocs ==
    UNION {{[shape |-> "ok",
             entries |-> [i \in 1..n |-> [E0 EXCEPT !.status = 200 + i, !.time = t[i],
                                                    !.size = z[i]]]] :
               t \in [1..n -> {5, 9}], z \in [1..n -> {1024, 2048}]} :
           n \in 0..MaxTopLen}

InitTop == InitWith(TopDocs)

NextTop == RunPerformance

SpecTop == InitTop /\ [][NextTop]_vars

\* The listing `items` is the top five of the document by Key: it has
\* min(5, number of entries) items, each of another entry; it is in
\* descending order of Key with entries of equal Key in document order; and
\* no entry left out comes before a listed one in that order.
IsTopFive(items, Key(_)) ==
    LET n == Len(DocEntries)
        at == [k \in DOMAIN items |-> items[k].status - 200]
        Before(i, j) == Key(DocEntries[i]) > Key(DocEntries[j])
                          \/ (Key(DocEntries[i]) = Key(DocEntries[j]) /\ i < j)
    IN /\ Len(items) = (IF n < 5 THEN n ELSE 5)
       /\ \A k \in DOMAIN at : at[k] \in 1..n
       /\ \A k \in 1..(Len(at) - 1) : Before(at[k], at[k + 1])
       /\ \A j \in 1..n :
             (\A k \in DOMAIN at : at[k] # j) => \A k \in DOMAIN at : Before(at[k], j)

\* The duration and the size of a document entry.
DurationOf(e) == e.time

BytesOf(e) == e.size

\* C19: slowest_requests (largest_requests) has min(5, number of entries)
\* items, in descending order of duration (response size), holds no entry
\* smaller than one left out, and lists entries of equal key in document
\* order, also at the cut after the fifth item.
C19_TopFiveStable ==
    (slots["performance"] # NotRun /\ DocEntries # <<>>) =>
        /\ slots["performance"].ok
        /\ IsTopFive(slots["performance"].val.slowest_requests, DurationOf)
        /\ IsTopFive(slots["performance"].val.largest_requests, BytesOf)
        /\ \A k \in DOMAIN slots["performance"].val.slowest_requests :
              LET it == slots["performance"].val.slowest_requests[k]
              IN it.time = 100 * DocEntries[it.status - 200].time

\* Six entries of which the second to the sixth take 9 ms and the first 5:
\* the listing is the entries 2..6 in order; and all six have the same size,
\* so the sixth is the one cut off the largest.
C19_Witness ==
    /\ slots["performance"] # NotRun
    /\ Len(DocEntries) = 6
    /\ \A i \in 1..6 : DocEntries[i].time = (IF i = 1 THEN 5 ELSE 9) /\ DocEntries[i].size = 2048
    /\ [k \in 1..5 |-> slots["performance"].val.slowest_requests[k].status] = <<202, 203, 204, 205, 206>>
    /\ [k \in 1..5 |-> slots["performance"].val.largest_requests[k].status] = <<201, 202, 203, 204, 205>>

----------------------------------------------------------------------------
(* The body previews (SpecPreview)                                         *)

MaxPreviewLen == 1

\* Texts: plain texts at and over the raw limit, a JSON text that is its own
\* indented form, and JSON texts whose indented form is short, at the JSON
\* limit, over it, and under it while the text itself is over the raw limit.
PreviewTexts ==
    {[id |-> "plain-1000", len |-> 1000, json |-> "no", pretty_len |-> 0],
     [id |-> "plain-1001", len |-> 1001, json |-> "no", pretty_len |-> 0],
     [id |-> "json-number", len |-> 1, json |-> "canonical", pretty_len |-> 1],
     [id |-> "json-small", len |-> 20, json |-> "compact", pretty_len |-> 30],
     [id |-> "json-2000", len |-> 1500, json |-> "compact", pretty_len |-> 2000],
     [id |-> "json-2001", len |-> 1501, json |-> "compact", pretty_len |-> 2001],
     [id |-> "json-1001", len |-> 1001, json |-> "compact", pretty_len |-> 1300]}

PreviewBodies ==
    {[present |-> TRUE, mimeType |-> m, text |-> t] :
        m \in {"", "application/json", "application/json; charset=utf-8", "text/plain"},
        t \in PreviewTexts \cup {NoText}}

\* Entries whose request body and response body are the same body, and
\* entries with only one of them.
PreviewEntries ==
    {[E0 EXCEPT !.postData = b, !.content = b] : b \in PreviewBodies}
    \cup {[E0 EXCEPT !.postData = b] : b \in PreviewBodies}
    \cup {[E0 EXCEPT !.content = b] : b \in PreviewBodies}

InitPreview == InitWith(DocsOf(PreviewEntries, MaxPreviewLen))

NextPreview == RunRequests

SpecPreview == InitPreview /\ [][NextPreview]_vars

\* C20 (as claimed): for every declared MIME type and text, the request
\* post-data and the response content get the same preview (the JSON branch
\* taken under the same MIME condition in both), with "..." appended iff the
\* text shown was cut, and full_content the original text in both.
C20_SamePreviewPolicy ==
    LET rq == slots["requests"].val
    IN slots["requests"] # NotRun =>
        /\ slots["requests"].ok
        /\ \A i \in DOMAIN DocEntries :
              LET e == DocEntries[i]
                  original == [of |-> e.content.text.id, form |-> "raw",
                               len |-> e.content.text.len]
              IN (e.postData.present /\ e.postData = e.content) =>
                    /\ rq[i].post_data.text = rq[i].response_content.preview
                    /\ rq[i].post_data.full_content = original
                    /\ rq[i].response_content.full_content = original

----------------------------------------------------------------------------
(* The byte-size formatter (SpecSize)                                      *)

MaxTopDigit == 2

\* Digits at the ends of the range, at the halves and quarters that a single
\* decimal shows or rounds, and on both sides of a twentieth (51.2 / 1024).
SizeDigits == {0, 1, 51, 52, 256, 512, 1023}

\* Byte counts from 0 up to MaxTopDigit * 1024^4 and more.
SizeInputs ==
    {<<d0, d1, d2, d3, top>> : d0 \in SizeDigits, d1 \in SizeDigits, d2 \in SizeDigits,
                               d3 \in SizeDigits, top \in 0..MaxTopDigit}

\* Documents without entries that carry the byte count to format.
SizeDocs == {[shape |-> "ok", entries |-> <<>>, size_bytes |-> w] : w \in SizeInputs}

InitSize == InitWith(SizeDocs)

\* One call of _format_size(size_bytes); calls keeps what it returned.
RunFormatSize ==
    /\ calls = <<>>
    /\ calls' = <<[analyzer |-> 1, out |-> Ok(FormatSize(har_data.size_bytes))]>>
    /\ UNCHANGED <<har_data, entries, error_info, clock, slots>>

NextSize == RunFormatSize

SpecSize == InitSize /\ [][NextSize]_vars

\* The highest non-zero digit of a byte count, 0 for the count 0.
HighDigit(w) == SetMax({0} \cup {i \in DOMAIN w : w[i] > 0})

\* t tenths is w / 1024^unit to one decimal: they differ by at most half a
\* tenth.
IsOneDecimalOf(t, w, unit) ==
    LET floor20 == 20 * IntPart(w, unit) + Twentieths(w, unit).floor
    IN /\ 2 * t - 1 <= floor20
       /\ \/ floor20 < 2 * t + 1
          \/ floor20 = 2 * t + 1 /\ Twentieths(w, unit).exact

\* C21: _format_size renders 0 as "0B"; a positive byte count is divided by
\* 1024 while it is at least 1024 and the unit is not yet GB, at most three
\* times, the unit is the one reached and the value is shown with one decimal;
\* 1024 is "1.0KB", 1536 is "1.5KB" and 1048576 is "1.0MB".
C21_ByteSizeFormat ==
    \A k \in DOMAIN calls :
        LET w == har_data.size_bytes
            r == calls[k].out.val
            divisions == IF HighDigit(w) - 1 < 3 THEN HighDigit(w) - 1 ELSE 3
        IN /\ calls[k].out.ok
           /\ HighDigit(w) = 0 => r = [unit |-> 0, tenths |-> 0 - 1]
           /\ HighDigit(w) > 0 =>
                 /\ r.unit = divisions
                 /\ r.unit <= 3
                 /\ Units[r.unit + 1] \in {"B", "KB", "MB", "GB"}
                 /\ IsOneDecimalOf(r.tenths, w, r.unit)
           /\ w = Wide(1024) => r = [unit |-> 1, tenths |-> 10]
           /\ w = Wide(1536) => r = [unit |-> 1, tenths |-> 15]
           /\ w = Wide(1048576) => r = [unit |-> 2, tenths |-> 10]

\* A byte count of 1024^4 or more has been formatted: it stays in GB, with
\* a value of 1024.0 or more.
C21_Witness ==
    /\ calls # <<>>
    /\ har_data.size_bytes[5] > 0
    /\ calls[1].out.val.unit = 3
    /\ calls[1].out.val.tenths >= 10240

----------------------------------------------------------------------------
(* The transport shells: main.py analyze_har, run.py analyze (SpecShell)   *)

MaxShellLen == 1

\* File names as their characters.
DotHar == <<".", "h", "a", "r">>

ShellNames ==
    {<<"a">> \o DotHar, DotHar, <<"a", ".", "H", "A", "R">>, <<"a", ".", "t", "x", "t">>,
     <<"h", "a", "r">>, <<"a">> \o DotHar \o <<".", "t", "x", "t">>, <<>>}

\* Entries of a parsed upload: a success, a failure, a null response.
ShellEntries ==
    {E0, [E0 EXCEPT !.status = 404, !.statusText = "Not Found"],
     [E0 EXCEPT !.shape = "response_null"]}

\* The uploaded bytes: bytes that are not UTF-8, UTF-8 text that is not JSON,
\* a JSON array, and JSON objects.
ShellContents ==
    {[kind |-> k, doc |-> [shape |-> "ok", entries |-> <<>>]] :
        k \in {"not_utf8", "not_json", "json_array"}}
    \cup {[kind |-> "json_object", doc |-> d] :
             d \in DocsOf(ShellEntries, MaxShellLen) \cup KeylessDocs}

Uploads == {[filename |-> n, content |-> c] : n \in ShellNames, c \in ShellContents}

\* Before any request: the upload to be posted.  No analyzer exists.
InitShell ==
    /\ har_data \in Uploads
    /\ entries = <<>>
    /\ error_info = NoErrorInfo
    /\ clock = 0
    /\ calls = <<>>
    /\ slots = [a \in AnalysisNames |-> NotRun]

\* str.endswith
EndsWith(name, suffix) ==
    /\ Len(name) >= Len(suffix)
    /\ SubSeq(name, Len(name) - Len(suffix) + 1, Len(name)) = suffix

\* str.lower() on the characters of the model.
LowerChar(c) ==
    CASE c = "H" -> "h"
      [] c = "A" -> "a"
      [] c = "R" -> "r"
      [] OTHER -> c

\* run.py ALLOWED_EXTENSIONS (line 14)
ALLOWED_EXTENSIONS == {<<"h", "a", "r">>}

\* run.py allowed_file (lines 20-21): the text after the last '.', lowered.
allowed_file(filename) ==
    LET dots == {i \in DOMAIN filename : filename[i] = "."}
        ext == SubSeq(filename, SetMax(dots) + 1, Len(filename))
    IN dots # {} /\ [i \in DOMAIN ext |-> LowerChar(ext[i])] \in ALLOWED_EXTENSIONS

\* content.decode('utf-8'), json.loads, HarAnalyzer(har_data) and analyze()
\* (main.py lines 45-50, run.py lines 45-50): the exception raised or the
\* report, and whether HarAnalyzer was called.
ReadAndAnalyze(content, now) ==
    IF content.kind = "not_utf8" THEN [out |-> Raised("UnicodeDecodeError"), invoked |-> FALSE]
    ELSE IF content.kind = "not_json" THEN [out |-> Raised("JSONDecodeError"), invoked |-> FALSE]
    ELSE IF content.kind = "json_array" THEN [out |-> Raised("AttributeError"), invoked |-> TRUE]
    ELSE [out |-> analyze(InitEntries(content.doc), NoErrorInfo, now).out, invoked |-> TRUE]

\* The except clauses both handlers share (main.py lines 58-61, run.py lines
\* 58-67), and the body returned when nothing was raised.
Answer(shell, tried, error_keys) ==
    IF tried.out.ok
    THEN [shell |-> shell, status |-> 200, keys |-> {"success", "data", "message"},
          success |-> TRUE, data |-> tried.out.val, text |-> "analysis complete",
          invoked |-> tried.invoked]
    ELSE [shell |-> shell,
          status |-> IF tried.out.exc = "JSONDecodeError" THEN 400 ELSE 500,
          keys |-> error_keys, success |-> FALSE, data |-> <<>>,
          text |-> IF tried.out.exc = "JSONDecodeError" THEN "not valid JSON"
                   ELSE "analysis failed: " \o tried.out.exc,
          invoked |-> tried.invoked]

\* main.py analyze_har (lines 36-61).  The HTTPException of line 42 is raised
\* inside the try block, so the clause of line 60 catches it.
analyze_har(upload, now) ==
    Answer("fastapi",
           IF ~EndsWith(upload.filename, DotHar)
           THEN [out |-> Raised("HTTPException"), invoked |-> FALSE]
           ELSE ReadAndAnalyze(upload.content, now),
           {"detail"})

\* run.py analyze (lines 28-72) for a request that has the part 'file'.
FlaskAnalyze(upload, now) ==
    IF upload.filename = <<>>
    THEN [shell |-> "flask", status |-> 400, keys |-> {"success", "message"},
          success |-> FALSE, data |-> <<>>, text |-> "no file selected", invoked |-> FALSE]
    ELSE IF allowed_file(upload.filename)
    THEN Answer("flask", ReadAndAnalyze(upload.content, now), {"success", "message"})
    ELSE [shell |-> "flask", status |-> 400, keys |-> {"success", "message"},
          success |-> FALSE, data |-> <<>>, text |-> "file type not supported",
          invoked |-> FALSE]

Posted(shell) == \E k \in DOMAIN calls : calls[k].shell = shell

\* The upload posted to the FastAPI shell; calls keeps the responses.
PostFastApi ==
    /\ ~Posted("fastapi")
    /\ calls' = Append(calls, analyze_har(har_data, clock))
    /\ UNCHANGED <<har_data, entries, error_info, clock, slots>>

\* The upload posted to the Flask shell.
PostFlask ==
    /\ ~Posted("flask")
    /\ calls' = Append(calls, FlaskAnalyze(har_data, clock))
    /\ UNCHANGED <<har_data, entries, error_info, clock, slots>>

NextShell == PostFastApi \/ PostFlask

SpecShell == InitShell /\ [][NextShell]_vars

\* The name ends in ".har", in any letter case.
NamedHar(name) ==
    /\ Len(name) >= Len(DotHar)
    /\ LET tail == SubSeq(name, Len(name) - Len(DotHar) + 1, Len(name))
       IN [i \in DOMAIN tail |-> LowerChar(tail[i])] = DotHar

\* C22 (as claimed): for both shells and every upload: a file whose name
\* does not end in .har is answered 400 without the analyzer being invoked;
\* bytes that are not valid JSON are answered 400; an exception during the
\* analysis is answered 500 with a message; every other upload is answered 200
\* with success, data and message; and both shells answer one upload with
\* the same status.
C22_ShellFailureMapping ==
    LET u == har_data
        tried == ReadAndAnalyze(u.content, clock)
    IN /\ \A k \in DOMAIN calls :
             LET r == calls[k]
             IN /\ ~NamedHar(u.filename) => r.status = 400 /\ ~r.invoked
                /\ EndsWith(u.filename, DotHar) =>
                      IF u.content.kind \in {"not_utf8", "not_json"} THEN r.status = 400
                      ELSE IF ~tried.out.ok THEN r.status = 500 /\ r.text # ""
                      ELSE /\ r.status = 200
                           /\ r.keys = {"success", "data", "message"}
                           /\ r.success
                           /\ r.data = tried.out.val
       /\ \A j, k \in DOMAIN calls : calls[j].status = calls[k].status

=============================================================================
